---- MODULE Spec2Model ----
(***************************************************************************)
(* A model of the igent phase-sequencing workflow engine:                  *)
(*   - the capacity allocator (igent/tools/capacity_tracker.py and         *)
(*     Workflow._update_capacity in igent/workflows/workflow.py),          *)
(*   - the resilient runner (run_with_backoff),                            *)
(*   - the batch writer (igent/utils/batch_writer.py),                     *)
(*   - the orchestrator (Workflow.run, ConfigurableWorkflow),              *)
(*   - the JSON list store (update_json_list, save_json),                  *)
(*   - the stats sink (init_csv, update_runtime),                          *)
(*   - the consumer of a session's events (process_pair) and the payload   *)
(*     extractor (_extract_json_before_approve),                           *)
(*   - the start-up of a workflow: the paths of WorkflowConfig, the        *)
(*     constellation descriptor and the loading of the registrations.      *)
(* The program is a single asyncio event loop: a coroutine runs without    *)
(* interruption from one await to the next, so each action below is one    *)
(* such segment of one coroutine or background task.                       *)
(***************************************************************************)
EXTENDS Integers, Sequences, FiniteSets, TLC

(***************************************************************************)
(* Bounds of the model.                                                    *)
(***************************************************************************)
MaxCap == 2
MaxCalls == 3
NumCallers == 2
MaxRetries == 3
MaxEvents == 2
MaxAppends == 3
MaxBatch == 2
MaxBurst == 4
MaxStoreOps == 2
MaxStored == 2
MaxRegs == 2
MaxRunCap == 1
MaxPad == 12
MaxMsgs == 3
MaxStatsCalls == 2
MaxLoaded == 2

Suppliers == {"S1", "S2"}
NoSupplier == ""
UnknownSupplier == "SX"
MatchSuppliers == Suppliers \cup {UnknownSupplier, NoSupplier}
Callers == 1..NumCallers
Files == {"matches", "pos"}
Keys == {"R1", "R2"}
RegIds == <<"R1", "R2", "R3", "R4">>

VARIABLES
  offersCap,   \* offers file: SupplierID -> Capacity (the immutable catalog)
  offersUsed,  \* offers file: SupplierID -> Used, the field the older design kept there
  capFile,     \* capacity file: [kind, data]
  capCache,    \* Workflow._capacity_cache: [loaded, data]
  wtasks,      \* fire-and-forget write_capacity tasks of Workflow._update_capacity
  tproc,       \* in-flight capacity_tracker.update_supplier_capacity calls
  rproc,       \* in-flight capacity_tracker.reset_capacity call
  calls,       \* number of allocator calls started so far
  lastCall,    \* the allocator call that returned most recently
  okCount,     \* per supplier: tracker increments that reported success
  resets,      \* number of completed resets
  rbMax,       \* run_with_backoff: max_retries
  rbLogger,    \* run_with_backoff: TRUE when a logger is passed, FALSE for None
  rbPc,        \* run_with_backoff: where the generator is
  rbAttempt,   \* run_with_backoff: the loop variable attempt
  rbCount,     \* run_with_backoff: msg_count of the attempt under way
  rbFails,     \* number of RateLimitErrors caught so far
  rbSleeps,    \* the wait_time of every asyncio.sleep made, in order
  rbEvents,    \* the messages yielded to the consumer, in order
  bwBatchSize, \* BatchWriter.batch_size
  bwKeys,      \* the keys of _pending_writes, in insertion order
  bwBuf,       \* BatchWriter._pending_writes: file -> list of records
  bwCount,     \* BatchWriter._write_counts
  flushers,    \* the flush coroutines under way (tasks and awaited calls)
  disk,        \* the destination files: file -> [kind, data]
  bwClient,    \* where the user of the writer is
  bwAppended,  \* every record handed to append, per file, in order
  bwAutoFlushes, \* number of flush tasks created by AutoFlushBatchWriter.append
  constellation, \* ConstellationConfig.phases
  numRegs,     \* number of records in the registrations file
  maxItems,    \* WorkflowConfig.max_items
  rpc,         \* where ConfigurableWorkflow.run is
  cur,         \* index of the registration the loop of Workflow.run is at
  phase,       \* phase_idx + 1 inside _process_registration
  status,      \* per registration: PENDING, RUNNING, DONE, FAILED, ABORTED
  startLog,    \* the registrations handed to _process_registration, in order
  phaseLog,    \* <<registration, phase>> of every process_pair call, in order
  lastMatches, \* ConfigurableWorkflow._last_matches
  statsRows,   \* registrations for which update_runtime was called
  rejectedFrom, \* per registration: first phase barred by a refused increment
  raisedBy,    \* the exception that left run(), if any
  lsFile,      \* the file update_json_list works on: [kind, data]
  lsApplied,   \* the new_entry of every update_json_list call, in order
  lsHist,      \* the file before the first call and after every call
  disk0,       \* the matches file as the batch writer found it
  \* the extractor applied to one transcript
  exPrefix,    \* the text before the approval mark
  exMark,      \* the approval mark, or the empty text
  exSuffix,    \* the text after the approval mark
  exResult,    \* what the extractor returned
  exPc,        \* "idle" or "done"
  \* one call of process_pair
  ppGroup,     \* is_group
  ppAgents,    \* the names of the agents of the team
  ppSuccess,   \* success, as a truth value
  ppOut,       \* matcher_output
  ppOut1,      \* matcher1_output
  ppOut2,      \* matcher2_output
  ppJson,      \* json_output
  ppMatches,   \* json_outputs["matches"]
  ppPos,       \* json_outputs["pos"]
  ppPc,        \* "stream", "ended", "returned" or "raised"
  ppResult,    \* the returned dictionary
  ppLog,       \* the events received so far
  \* configuration, construction and loading
  cfg0,        \* the WorkflowConfig arguments as given
  cfg,         \* the WorkflowConfig object
  descriptors, \* the constellation names that have a descriptor file
  cfgPc,       \* "new", "configured", "constructed", "config_error",
               \*   "initialized", "loaded" or "returned"
  cfgError,    \* the exception raised by the constructor
  written,     \* the result files written so far
  regs0,       \* the registrations as read from the file
  regs,        \* the registrations _load_data returns
  \* the stats sink
  stCols,      \* constellation.timing_columns
  stFile,      \* the stats file: [exists, columns, rows]
  stPc,        \* "new", or "ready" once _initialize has run
  stLast       \* the latest call of update_runtime and how it ended

capVars == <<offersCap, offersUsed, capFile, capCache, wtasks, tproc, rproc, calls,
             lastCall, okCount, resets>>

retryVars == <<rbMax, rbLogger, rbPc, rbAttempt, rbCount, rbFails, rbSleeps, rbEvents>>

batchVars == <<bwBatchSize, bwKeys, bwBuf, bwCount, flushers, disk, bwClient,
               bwAppended, bwAutoFlushes>>

runVars == <<constellation, numRegs, maxItems, rpc, cur, phase, status, startLog,
            phaseLog, lastMatches, statsRows, rejectedFrom, raisedBy>>

storeVars == <<lsFile, lsApplied, lsHist, disk0>>

extractVars == <<exPrefix, exMark, exSuffix, exResult, exPc>>

pairVars == <<ppGroup, ppAgents, ppSuccess, ppOut, ppOut1, ppOut2, ppJson,
              ppMatches, ppPos, ppPc, ppResult, ppLog>>

configVars == <<cfg0, cfg, descriptors, cfgPc, cfgError, written, regs0, regs>>

statsVars == <<stCols, stFile, stPc, stLast>>

auxVars == <<storeVars, extractVars, pairVars, configVars, statsVars>>

vars == <<capVars, retryVars, batchVars, runVars, auxVars>>

notCapVars == <<retryVars, batchVars, runVars, auxVars>>
notRetryVars == <<capVars, batchVars, runVars, auxVars>>
notBatchVars == <<capVars, retryVars, runVars, auxVars>>
notStoreVars == <<capVars, retryVars, batchVars, runVars, extractVars, pairVars,
                  configVars, statsVars>>
notExtractVars == <<capVars, retryVars, batchVars, runVars, storeVars, pairVars,
                    configVars, statsVars>>
notPairVars == <<capVars, retryVars, batchVars, runVars, storeVars, extractVars,
                 configVars, statsVars>>
notConfigVars == <<capVars, retryVars, batchVars, runVars, storeVars, extractVars,
                   pairVars, statsVars>>
notStatsVars == <<capVars, retryVars, batchVars, runVars, storeVars, extractVars,
                  pairVars, configVars>>

(***************************************************************************)
(* Capacity records.  UsedPct is kept in hundredths (0.33 is 33).          *)
(***************************************************************************)
\* round(new_used / capacity, 2) if capacity > 0 else 0.0 ; Python rounds
\* an exact tie to the even neighbour.
RoundPct(used, capacity) ==
  IF capacity > 0
    THEN LET n == 100 * used
             q == n \div capacity
             r == n % capacity
         IN IF 2 * r < capacity THEN q
            ELSE IF 2 * r > capacity THEN q + 1
            ELSE IF q % 2 = 0 THEN q ELSE q + 1
    ELSE 0

CapacityRecord(capacity, used) ==
  [Capacity |-> capacity, Used |-> used, UsedPct |-> RoundPct(used, capacity)]

\* an offers file in which no supplier has a unit in use
NoUsed == [s \in Suppliers |-> 0]

\* placeholder content of a file or cache that holds no map
NoData == [s \in Suppliers |-> [Capacity |-> 0, Used |-> 0, UsedPct |-> 0]]

\* initialize_capacity_file, the branch that builds the map from the offers
InitialCapacity ==
  [s \in Suppliers |-> [Capacity |-> offersCap[s], Used |-> 0, UsedPct |-> 0]]

AbsentFile == [kind |-> "absent", data |-> NoData]
EmptyFile == [kind |-> "empty", data |-> NoData]
DataFile(d) == [kind |-> "data", data |-> d]

\* the mutant of the capacity test: off by one
ExceededOffByOne(rec) == rec.Used + 1 > rec.Capacity + 1

\* new_used = current_used + 1 ; if new_used > capacity: raise
Exceeded(rec) == rec.Used + 1 > rec.Capacity

\* supplier_capacity["Used"] = new_used ; supplier_capacity["UsedPct"] = ...
Incremented(rec) ==
  [rec EXCEPT !.Used = rec.Used + 1,
              !.UsedPct = RoundPct(rec.Used + 1, rec.Capacity)]

\* the outcome of one increment attempt on a loaded capacity map
IncrementResult(data, m) ==
  IF m = NoSupplier THEN "missing_supplier"
  ELSE IF m \notin Suppliers THEN "not_found"
  ELSE IF Exceeded(data[m]) THEN "exceeded"
  ELSE "ok"

\* the mutant of the increment: the record is written before the test
IncrementBeforeCheck(data, m) ==
  IF m \in Suppliers THEN [data EXCEPT ![m] = Incremented(data[m])] ELSE data

\* the capacity map after one increment attempt: untouched unless accepted
AfterIncrement(data, m) ==
  IF IncrementResult(data, m) = "ok"
    THEN [data EXCEPT ![m] = Incremented(data[m])]
    ELSE data

\* the mutant of the reset: the map is built afresh, the capacities are lost
ResetFromScratch(data) == NoData

\* for supplier_capacity in capacity_data.values(): Used = 0 ; UsedPct = 0.0
ResetAll(data) ==
  [s \in Suppliers |-> [data[s] EXCEPT !.Used = 0, !.UsedPct = 0]]

\* what initialize_capacity_file returns for the file as it is now
LoadedCapacity == IF capFile.kind = "absent" THEN InitialCapacity ELSE capFile.data

\* the file initialize_capacity_file leaves behind
FileAfterLoad == IF capFile.kind = "absent" THEN DataFile(InitialCapacity) ELSE capFile

RemoveAt(seq, i) == [j \in 1..(Len(seq) - 1) |-> IF j < i THEN seq[j] ELSE seq[j + 1]]

IdleProc == [pc |-> "idle", sup |-> NoSupplier, local |-> NoData]

Returned(who, m, result) ==
  lastCall' = [seq |-> lastCall.seq + 1, who |-> who, sup |-> m, result |-> result]

(***************************************************************************)
(* capacity_tracker.update_supplier_capacity: a tool call.  Several calls  *)
(* can be in flight at once; each reads the capacity file, tests and       *)
(* increments its own copy, and writes the whole map back.                 *)
(***************************************************************************)
\* from entry to the await of aiofiles.open(capacity_path, "w")
TrackerRead(p, m) ==
  /\ tproc[p].pc = "idle"
  /\ calls < MaxCalls
  /\ calls' = calls + 1
  /\ IF capFile.kind = "empty"
       THEN \* json.loads("") raises JSONDecodeError
            /\ Returned("tracker", m, "decode_error")
            /\ UNCHANGED <<capFile, tproc>>
       ELSE /\ capFile' = FileAfterLoad
            /\ IF IncrementResult(LoadedCapacity, m) = "ok"
                 THEN /\ tproc' = [tproc EXCEPT ![p] =
                            [pc |-> "opening", sup |-> m,
                             local |-> AfterIncrement(LoadedCapacity, m)]]
                      /\ UNCHANGED lastCall
                 ELSE /\ Returned("tracker", m, IncrementResult(LoadedCapacity, m))
                      /\ UNCHANGED tproc
  /\ UNCHANGED <<offersCap, offersUsed, capCache, wtasks, rproc, okCount, resets>>
  /\ UNCHANGED notCapVars

\* aiofiles.open(capacity_path, "w") truncates the file
TrackerOpen(p) ==
  /\ tproc[p].pc = "opening"
  /\ capFile' = EmptyFile
  /\ tproc' = [tproc EXCEPT ![p].pc = "writing"]
  /\ UNCHANGED <<offersCap, offersUsed, capCache, wtasks, rproc, calls, lastCall, okCount, resets>>
  /\ UNCHANGED notCapVars

\* the mutant of the write: Used is stored in the offers file as well
TrackerCloseInOffers(p) ==
  /\ tproc[p].pc = "writing"
  /\ capFile' = DataFile(tproc[p].local)
  /\ offersUsed' = [s \in Suppliers |-> tproc[p].local[s].Used]
  /\ okCount' = [okCount EXCEPT ![tproc[p].sup] = @ + 1]
  /\ Returned("tracker", tproc[p].sup, "ok")
  /\ tproc' = [tproc EXCEPT ![p] = IdleProc]
  /\ UNCHANGED <<offersCap, capCache, wtasks, rproc, calls, resets>>
  /\ UNCHANGED notCapVars

\* f.write(json.dumps(capacity_data)) and the close; the call returns success
TrackerClose(p) ==
  /\ tproc[p].pc = "writing"
  /\ capFile' = DataFile(tproc[p].local)
  /\ okCount' = [okCount EXCEPT ![tproc[p].sup] = @ + 1]
  /\ Returned("tracker", tproc[p].sup, "ok")
  /\ tproc' = [tproc EXCEPT ![p] = IdleProc]
  /\ UNCHANGED <<offersCap, offersUsed, capCache, wtasks, rproc, calls, resets>>
  /\ UNCHANGED notCapVars

(***************************************************************************)
(* capacity_tracker.reset_capacity                                         *)
(***************************************************************************)
\* get_available_capacity and the loop, up to the await of open(.., "w")
ResetRead ==
  /\ rproc.pc = "idle"
  /\ calls < MaxCalls
  /\ calls' = calls + 1
  /\ IF capFile.kind = "data"
       THEN /\ rproc' = [pc |-> "opening", sup |-> NoSupplier,
                         local |-> ResetAll(capFile.data)]
            /\ UNCHANGED lastCall
       ELSE /\ Returned("reset", NoSupplier,
                        IF capFile.kind = "absent" THEN "no_file" ELSE "decode_error")
            /\ UNCHANGED rproc
  /\ UNCHANGED <<offersCap, offersUsed, capFile, capCache, wtasks, tproc, okCount, resets>>
  /\ UNCHANGED notCapVars

ResetOpen ==
  /\ rproc.pc = "opening"
  /\ capFile' = EmptyFile
  /\ rproc' = [rproc EXCEPT !.pc = "writing"]
  /\ UNCHANGED <<offersCap, offersUsed, capCache, wtasks, tproc, calls, lastCall, okCount, resets>>
  /\ UNCHANGED notCapVars

ResetClose ==
  /\ rproc.pc = "writing"
  /\ capFile' = DataFile(rproc.local)
  /\ resets' = resets + 1
  /\ Returned("reset", NoSupplier, "ok")
  /\ rproc' = IdleProc
  /\ UNCHANGED <<offersCap, offersUsed, capCache, wtasks, tproc, calls, okCount>>
  /\ UNCHANGED notCapVars

(***************************************************************************)
(* Workflow._update_capacity: the allocator of the orchestrator.  It works *)
(* on the cached map and hands the file write to a background task.        *)
(***************************************************************************)
\* _get_capacity_data fails when the file cannot be parsed
CacheLoadFails == ~capCache.loaded /\ capFile.kind = "empty"

\* the mutant of the cache: the map is read from the file at every call
CapacityDataReread == LoadedCapacity

\* _get_capacity_data: the cached map, loaded on first use
CapacityData == IF capCache.loaded THEN capCache.data ELSE LoadedCapacity

\* the result of _update_capacity(matches, run_id) for matches[-1] naming m
UpdateResult(m) ==
  IF CacheLoadFails THEN "decode_error" ELSE IncrementResult(CapacityData, m)

\* the effect of _update_capacity on the cache, the file and the task list
UpdateCapacityEffect(m) ==
  IF CacheLoadFails
    THEN UNCHANGED <<capFile, capCache, wtasks>>
    ELSE /\ capFile' = (IF capCache.loaded THEN capFile ELSE FileAfterLoad)
         /\ capCache' = [loaded |-> TRUE, data |-> AfterIncrement(CapacityData, m)]
         /\ wtasks' = IF UpdateResult(m) = "ok"
                        THEN Append(wtasks, [stage |-> "created", snap |-> NoData])
                        ELSE wtasks

\* a call of the allocator on its own
WfUpdate(m) ==
  /\ calls < MaxCalls
  /\ calls' = calls + 1
  /\ UpdateCapacityEffect(m)
  /\ Returned("workflow", m, UpdateResult(m))
  /\ UNCHANGED <<offersCap, offersUsed, tproc, rproc, okCount, resets>>
  /\ UNCHANGED notCapVars

\* write_capacity: async with aiofiles.open(capacity_path, "w")
WriteOpen(i) ==
  /\ i \in 1..Len(wtasks)
  /\ wtasks[i].stage = "created"
  /\ wtasks' = [wtasks EXCEPT ![i].stage = "opened"]
  /\ capFile' = EmptyFile
  /\ UNCHANGED <<offersCap, offersUsed, capCache, tproc, rproc, calls, lastCall, okCount, resets>>
  /\ UNCHANGED notCapVars

\* write_capacity: json.dumps(capacity_data) reads the live cached map
WriteDump(i) ==
  /\ i \in 1..Len(wtasks)
  /\ wtasks[i].stage = "opened"
  /\ wtasks' = [wtasks EXCEPT ![i] = [stage |-> "dumped", snap |-> capCache.data]]
  /\ UNCHANGED <<offersCap, offersUsed, capFile, capCache, tproc, rproc, calls, lastCall,
                 okCount, resets>>
  /\ UNCHANGED notCapVars

\* write_capacity: leaving the async with closes the file
WriteClose(i) ==
  /\ i \in 1..Len(wtasks)
  /\ wtasks[i].stage = "dumped"
  /\ capFile' = DataFile(wtasks[i].snap)
  /\ wtasks' = RemoveAt(wtasks, i)
  /\ UNCHANGED <<offersCap, offersUsed, capCache, tproc, rproc, calls, lastCall, okCount, resets>>
  /\ UNCHANGED notCapVars

CapStart ==
  /\ offersCap \in [Suppliers -> 0..MaxCap]
  /\ capFile \in {AbsentFile, DataFile(InitialCapacity)}
  /\ capCache = [loaded |-> FALSE, data |-> NoData]
  /\ wtasks = <<>>
  /\ tproc = [p \in Callers |-> IdleProc]
  /\ rproc = IdleProc
  /\ calls = 0
  /\ lastCall = [seq |-> 0, who |-> "none", sup |-> NoSupplier, result |-> "none"]
  /\ okCount = [s \in Suppliers |-> 0]
  /\ resets = 0

(***************************************************************************)
(* run_with_backoff: the resilient runner, an async generator that passes  *)
(* on the messages of pair.run_stream and starts the stream again after a  *)
(* RateLimitError.                                                         *)
(***************************************************************************)
RECURSIVE Pow2(_)
Pow2(n) == IF n = 0 THEN 1 ELSE 2 * Pow2(n - 1)

\* wait_time = 2**attempt
WaitTime(attempt) == Pow2(attempt)

\* the mutant of the retry test: sleeps and retries after the last attempt too
MayRetryAlways(attempt, max_retries) == attempt < max_retries

\* if attempt < max_retries - 1
MayRetry(attempt, max_retries) == attempt < max_retries - 1

RbIdle ==
  /\ rbPc = "idle"
  /\ rbAttempt = 0
  /\ rbCount = 0
  /\ rbFails = 0
  /\ rbSleeps = <<>>
  /\ rbEvents = <<>>

\* the consumer starts iterating: for attempt in range(max_retries)
RbBegin ==
  /\ rbPc = "idle"
  /\ rbPc' = IF rbMax > 0 THEN "streaming" ELSE "done"
  /\ UNCHANGED <<rbMax, rbLogger, rbAttempt, rbCount, rbFails, rbSleeps, rbEvents>>
  /\ UNCHANGED notRetryVars

\* async for msg in pair.run_stream(...): msg_count += 1 ; yield msg
RbYield ==
  /\ rbPc = "streaming"
  /\ rbCount < MaxEvents
  /\ rbCount' = rbCount + 1
  /\ rbEvents' = Append(rbEvents, [attempt |-> rbAttempt, index |-> rbCount + 1])
  /\ UNCHANGED <<rbMax, rbLogger, rbPc, rbAttempt, rbFails, rbSleeps>>
  /\ UNCHANGED notRetryVars

\* the stream ends: break
RbComplete ==
  /\ rbPc = "streaming"
  /\ rbPc' = "done"
  /\ UNCHANGED <<rbMax, rbLogger, rbAttempt, rbCount, rbFails, rbSleeps, rbEvents>>
  /\ UNCHANGED notRetryVars

\* except RateLimitError: logger.warning and sleep, then round again, or
\* logger.error and raise e; both calls go through logger unguarded, so
\* with logger=None the handler ends with an AttributeError
RbRateLimited ==
  /\ rbPc = "streaming"
  /\ rbFails' = rbFails + 1
  /\ IF ~rbLogger
       THEN /\ rbPc' = "attribute_error"
            /\ UNCHANGED rbSleeps
       ELSE IF MayRetry(rbAttempt, rbMax)
         THEN /\ rbSleeps' = Append(rbSleeps, WaitTime(rbAttempt))
              /\ rbPc' = "sleeping"
         ELSE /\ rbPc' = "raised"
              /\ UNCHANGED rbSleeps
  /\ UNCHANGED <<rbMax, rbLogger, rbAttempt, rbCount, rbEvents>>
  /\ UNCHANGED notRetryVars

\* any other exception of the stream is not caught
RbOtherError ==
  /\ rbPc = "streaming"
  /\ rbPc' = "error"
  /\ UNCHANGED <<rbMax, rbLogger, rbAttempt, rbCount, rbFails, rbSleeps, rbEvents>>
  /\ UNCHANGED notRetryVars

\* asyncio.sleep returns: the next iteration of the for loop
RbWake ==
  /\ rbPc = "sleeping"
  /\ rbAttempt' = rbAttempt + 1
  /\ rbCount' = 0
  /\ rbPc' = IF rbAttempt + 1 < rbMax THEN "streaming" ELSE "done"
  /\ UNCHANGED <<rbMax, rbLogger, rbFails, rbSleeps, rbEvents>>
  /\ UNCHANGED notRetryVars

(***************************************************************************)
(* BatchWriter and AutoFlushBatchWriter.  A record is [key, ver]: key is   *)
(* its registration id and ver numbers the append calls, so that two       *)
(* records are never equal.                                                *)
(***************************************************************************)
AbsentDisk == [kind |-> "absent", data |-> <<>>]
EmptyDisk == [kind |-> "empty", data |-> <<>>]
ListDisk(list) == [kind |-> "data", data |-> list]

\* a file whose content json.loads rejects, and one that holds JSON that is
\* not a list
InvalidDisk == [kind |-> "invalid", data |-> <<>>]
NonListDisk == [kind |-> "nonlist", data |-> <<>>]

\* existing_data of flush for a file that json.loads accepts: the content
\* when it is a list, [] for blank content and for JSON that is not a list
ReadForFlush(file) == IF file.kind = "data" THEN file.data ELSE <<>>

\* existing_data.extend(pending_data)
Extended(existing, pending) == existing \o pending

TotalAppended == Len(bwAppended["matches"]) + Len(bwAppended["pos"])

\* get_pending_count(): sum(len(data) for data in _pending_writes.values())
PendingCount == Len(bwBuf["matches"]) + Len(bwBuf["pos"])

\* the mutant of the threshold test: flushes one record late
ReachedBatchLate(count, batch_size) == count > batch_size

\* if self._write_counts[filepath] >= self.batch_size
ReachedBatch(count, batch_size) == count >= batch_size

\* a flush coroutine that has not run yet
NewFlusher(who, todo) ==
  [who |-> who, todo |-> todo, pc |-> "new", live |-> FALSE, data |-> <<>>,
   existing |-> <<>>]

\* the flush loop skips a file whose buffer is empty
RECURSIVE SkipEmpty(_)
SkipEmpty(todo) ==
  IF todo = <<>> THEN <<>>
  ELSE IF bwBuf[Head(todo)] = <<>> THEN SkipEmpty(Tail(todo))
  ELSE todo

\* flush, from taking pending_data of the file at the head of todo to the
\* next await: the read of an existing file, or the open for writing
FlusherAt(who, todo) ==
  IF disk[Head(todo)].kind = "absent"
    THEN [who |-> who, todo |-> todo, pc |-> "opening", live |-> FALSE,
          data |-> <<>>, existing |-> bwBuf[Head(todo)]]
    ELSE [who |-> who, todo |-> todo, pc |-> "reading", live |-> TRUE,
          data |-> <<>>, existing |-> <<>>]

\* pending_data is the list object that was in _pending_writes when the
\* flush took it: later appends show in it until another flush replaces it
PendingData(fl) == IF fl.live THEN bwBuf[Head(fl.todo)] ELSE fl.data

\* BatchWriter.append, then the test of AutoFlushBatchWriter.append
AppendEffect(f, rec) ==
  /\ bwKeys' = IF \E i \in 1..Len(bwKeys) : bwKeys[i] = f THEN bwKeys
               ELSE Append(bwKeys, f)
  /\ bwBuf' = [bwBuf EXCEPT ![f] = Append(@, rec)]
  /\ bwCount' = [bwCount EXCEPT ![f] = @ + 1]
  /\ bwAppended' = [bwAppended EXCEPT ![f] = Append(@, rec)]
  /\ IF ReachedBatch(bwCount[f] + 1, bwBatchSize)
       THEN /\ flushers' = Append(flushers, NewFlusher("task", <<f>>))
            /\ bwAutoFlushes' = bwAutoFlushes + 1
       ELSE UNCHANGED <<flushers, bwAutoFlushes>>

\* the flush task gets to run: the first segment of flush(filepath)
FlushBegin(i) ==
  /\ i \in 1..Len(flushers)
  /\ flushers[i].pc = "new"
  /\ flushers' = IF SkipEmpty(flushers[i].todo) = <<>>
                   THEN RemoveAt(flushers, i)
                   ELSE [flushers EXCEPT ![i] = FlusherAt(flushers[i].who, SkipEmpty(flushers[i].todo))]
  /\ UNCHANGED <<bwBatchSize, bwKeys, bwBuf, bwCount, disk, bwClient, bwAppended,
                 bwAutoFlushes>>
  /\ UNCHANGED notBatchVars

\* content = await f.read() ; existing_data = json.loads(content): the
\* JSONDecodeError of invalid content is not caught, it ends the flush and
\* reaches the caller that awaits it
FlushRead(i) ==
  /\ i \in 1..Len(flushers)
  /\ flushers[i].pc = "reading"
  /\ IF disk[Head(flushers[i].todo)].kind = "invalid"
       THEN /\ flushers' = RemoveAt(flushers, i)
            /\ bwClient' = IF flushers[i].who = "main" THEN "raised" ELSE bwClient
       ELSE /\ flushers' = [flushers EXCEPT ![i].pc = "extending",
                              ![i].existing = ReadForFlush(disk[Head(flushers[i].todo)])]
            /\ UNCHANGED bwClient
  /\ UNCHANGED <<bwBatchSize, bwKeys, bwBuf, bwCount, disk, bwAppended,
                 bwAutoFlushes>>
  /\ UNCHANGED notBatchVars

\* existing_data.extend(pending_data), up to the await of open(path, "w")
FlushExtend(i) ==
  /\ i \in 1..Len(flushers)
  /\ flushers[i].pc = "extending"
  /\ flushers' = [flushers EXCEPT ![i].pc = "opening",
                                  ![i].existing = Extended(@, PendingData(flushers[i]))]
  /\ UNCHANGED <<bwBatchSize, bwKeys, bwBuf, bwCount, disk, bwClient, bwAppended,
                 bwAutoFlushes>>
  /\ UNCHANGED notBatchVars

\* aiofiles.open(path, "w") truncates the file
FlushTruncate(i) ==
  /\ i \in 1..Len(flushers)
  /\ flushers[i].pc = "opening"
  /\ disk' = [disk EXCEPT ![Head(flushers[i].todo)] = EmptyDisk]
  /\ flushers' = [flushers EXCEPT ![i].pc = "writing"]
  /\ UNCHANGED <<bwBatchSize, bwKeys, bwBuf, bwCount, bwClient, bwAppended,
                 bwAutoFlushes>>
  /\ UNCHANGED notBatchVars

\* f.write(json.dumps(existing_data)) and the close
FlushCommit(i) ==
  /\ i \in 1..Len(flushers)
  /\ flushers[i].pc = "writing"
  /\ disk' = [disk EXCEPT ![Head(flushers[i].todo)] = ListDisk(flushers[i].existing)]
  /\ flushers' = [flushers EXCEPT ![i].pc = "clearing"]
  /\ UNCHANGED <<bwBatchSize, bwKeys, bwBuf, bwCount, bwClient, bwAppended,
                 bwAutoFlushes>>
  /\ UNCHANGED notBatchVars

\* the other flushes of file f keep the list object this flush replaces
Detached(fls, f) ==
  [j \in 1..Len(fls) |->
     IF fls[j].live /\ Head(fls[j].todo) = f
       THEN [fls[j] EXCEPT !.live = FALSE, !.data = bwBuf[f]]
       ELSE fls[j]]

\* _pending_writes[file_path] = [] ; _write_counts[file_path] = 0 ; then the
\* loop goes on to the next file, or flush returns
FlushClear(i) ==
  /\ i \in 1..Len(flushers)
  /\ flushers[i].pc = "clearing"
  /\ LET f == Head(flushers[i].todo)
         rest == SkipEmpty(Tail(flushers[i].todo))
         others == Detached(flushers, f)
     IN /\ bwBuf' = [bwBuf EXCEPT ![f] = <<>>]
        /\ bwCount' = [bwCount EXCEPT ![f] = 0]
        /\ flushers' = IF rest = <<>>
                         THEN RemoveAt(others, i)
                         ELSE [others EXCEPT ![i] = FlusherAt(flushers[i].who, rest)]
        /\ bwClient' = IF rest = <<>> /\ flushers[i].who = "main" THEN "ended"
                       ELSE bwClient
  /\ UNCHANGED <<bwBatchSize, bwKeys, disk, bwAppended, bwAutoFlushes>>
  /\ UNCHANGED notBatchVars

\* await flush_all(): flush() runs in the caller up to its first await
FlushAllEffect ==
  IF SkipEmpty(bwKeys) = <<>>
    THEN /\ bwClient' = "ended"
         /\ UNCHANGED flushers
    ELSE /\ bwClient' = "flushing"
         /\ flushers' = Append(flushers, FlusherAt("main", SkipEmpty(bwKeys)))

\* a user of the writer appends a record
ClientAppend(f, k) ==
  /\ bwClient = "running"
  /\ TotalAppended < MaxAppends
  /\ AppendEffect(f, [key |-> k, ver |-> TotalAppended + 1, supplier_id |-> NoSupplier])
  /\ UNCHANGED <<bwBatchSize, disk, bwClient>>
  /\ UNCHANGED notBatchVars

\* the user ends with the final flush_all
ClientFlushAll ==
  /\ bwClient = "running"
  /\ FlushAllEffect
  /\ UNCHANGED <<bwBatchSize, bwKeys, bwBuf, bwCount, disk, bwAppended, bwAutoFlushes>>
  /\ UNCHANGED notBatchVars

\* a user that appends all its records to one destination, back to back or
\* with awaits in between
BurstAppend ==
  /\ bwClient = "running"
  /\ Len(bwAppended["matches"]) < MaxBurst
  /\ AppendEffect("matches", [key |-> "R1", ver |-> TotalAppended + 1,
                              supplier_id |-> NoSupplier])
  /\ UNCHANGED <<bwBatchSize, disk, bwClient>>
  /\ UNCHANGED notBatchVars

BwIdle ==
  /\ bwKeys = <<>>
  /\ bwBuf = [f \in Files |-> <<>>]
  /\ bwCount = [f \in Files |-> 0]
  /\ flushers = <<>>
  /\ disk = [f \in Files |-> AbsentDisk]
  /\ bwClient = "running"
  /\ bwAppended = [f \in Files |-> <<>>]
  /\ bwAutoFlushes = 0

RbUnused == rbMax = 0 /\ rbLogger = FALSE /\ RbIdle

CapUnused ==
  /\ offersCap = [s \in Suppliers |-> 0]
  /\ offersUsed = NoUsed
  /\ capFile = AbsentFile
  /\ capCache = [loaded |-> FALSE, data |-> NoData]
  /\ wtasks = <<>>
  /\ tproc = [p \in Callers |-> IdleProc]
  /\ rproc = IdleProc
  /\ calls = 0
  /\ lastCall = [seq |-> 0, who |-> "none", sup |-> NoSupplier, result |-> "none"]
  /\ okCount = [s \in Suppliers |-> 0]
  /\ resets = 0

BwUnused == bwBatchSize = 1 /\ BwIdle

(***************************************************************************)
(* The orchestrator: Workflow.run and ConfigurableWorkflow.                *)
(***************************************************************************)
\* AutoFlushBatchWriter(batch_size=5)
WorkflowBatchSize == 5

\* PhaseConfig, with the roles of its agents
Phase(roles, before, after) ==
  [roles |-> roles, capacity_update_before |-> before, capacity_update_after |-> after]

\* the capacity flags <<before1, after1, before2, after2>> of the
\* constellation descriptors the model runs: no update, each flag on its
\* own, and the update after the first phase with one before the second
PhaseFlags ==
  { <<FALSE, FALSE, FALSE, FALSE>>, <<TRUE, FALSE, FALSE, FALSE>>,
    <<FALSE, TRUE, FALSE, FALSE>>, <<FALSE, FALSE, TRUE, FALSE>>,
    <<FALSE, FALSE, FALSE, TRUE>>, <<FALSE, TRUE, TRUE, FALSE>> }

\* a first-producer phase with its reviewer, then a second-producer phase
Constellations ==
  { <<Phase({"matcher1", "critic"}, f[1], f[2]), Phase({"matcher2"}, f[3], f[4])>> :
      f \in PhaseFlags }

\* any("matcher1" in role for role in agent_roles)
HasMatcher1(roles) == "matcher1" \in roles

\* any("matcher2" in role for role in agent_roles)
HasMatcher2(roles) == "matcher2" \in roles

\* max_items = min(self.config.max_items, len(registrations))
MaxProc == IF maxItems < numRegs THEN maxItems ELSE numRegs

\* the mutant of the loop: a failed registration ends the batch
LoopBreaksOnFailure(st) == IF st = "FAILED" THEN "exit" ELSE "loop"

\* offers = await self._process_registration(...) ; if offers is None: continue
LoopAfter(st) == "loop"

\* the mutant of the allocator test: a refused increment is ignored
CapacityFailedIgnored(result) == FALSE

\* offers = await self._update_capacity(...) ; if offers is None: return None
CapacityFailed(result) == result # "ok"

Last(seq) == seq[Len(seq)]

\* the exceptions process_pair lets through: the RateLimitError re-raised by
\* run_with_backoff after max_retries, and any other error of the session
PairExceptions == {"RateLimitError", "other"}

\* the supplier_id a first-producer payload can carry
PayloadSuppliers == MatchSuppliers

\* await self._initialize() ; self._load_data() ; max_items
RunStart ==
  /\ rpc = "init"
  /\ rpc' = IF MaxProc = 0 THEN "exit" ELSE "loop"
  /\ UNCHANGED <<constellation, numRegs, maxItems, cur, phase, status, startLog,
                 phaseLog, lastMatches, statsRows, rejectedFrom, raisedBy>>
  /\ UNCHANGED <<capVars, retryVars, batchVars, auxVars>>

\* for i, registration in enumerate(registrations[:max_items], 1)
StartRegistration ==
  /\ rpc = "loop"
  /\ cur < MaxProc
  /\ cur' = cur + 1
  /\ phase' = 1
  /\ status' = [status EXCEPT ![cur + 1] = "RUNNING"]
  /\ startLog' = Append(startLog, cur + 1)
  /\ rpc' = "phase"
  /\ UNCHANGED <<constellation, numRegs, maxItems, phaseLog, lastMatches, statsRows,
                 rejectedFrom, raisedBy>>
  /\ UNCHANGED <<capVars, retryVars, batchVars, auxVars>>

\* the for loop of Workflow.run is exhausted
LoopExit ==
  /\ rpc = "loop"
  /\ cur >= MaxProc
  /\ rpc' = "exit"
  /\ UNCHANGED <<constellation, numRegs, maxItems, cur, phase, status, startLog,
                 phaseLog, lastMatches, statsRows, rejectedFrom, raisedBy>>
  /\ UNCHANGED <<capVars, retryVars, batchVars, auxVars>>

\* self._update_capacity(self._last_matches, run_id) inside a registration
RunUpdateCapacity(matches) ==
  /\ UpdateCapacityEffect(Last(matches).supplier_id)
  /\ Returned("workflow", Last(matches).supplier_id,
              UpdateResult(Last(matches).supplier_id))
  /\ UNCHANGED <<offersCap, offersUsed, tproc, rproc, calls, okCount, resets>>

\* the record of an increment refused for lack of capacity at phase k
RefusalNoted(result, k) ==
  rejectedFrom' = IF result = "exceeded" THEN [rejectedFrom EXCEPT ![cur] = k]
                  ELSE rejectedFrom

\* the mutant of the early return: the registration goes on after a failure
RegistrationCarriesOn ==
  /\ status' = status
  /\ rpc' = "phase"

\* _process_registration returns None: the registration has failed
RegistrationFails ==
  /\ status' = [status EXCEPT ![cur] = "FAILED"]
  /\ rpc' = LoopAfter("FAILED")

\* the top of the phase loop: the capacity update before the phase, then
\* get_agents, _build_phase_message and the call of process_pair
BeginPhase ==
  /\ rpc = "phase"
  /\ IF constellation[phase].capacity_update_before /\ lastMatches # <<>>
       THEN /\ RunUpdateCapacity(lastMatches)
            /\ RefusalNoted(UpdateResult(Last(lastMatches).supplier_id), phase)
            /\ IF CapacityFailed(UpdateResult(Last(lastMatches).supplier_id))
                 THEN /\ RegistrationFails
                      /\ UNCHANGED phaseLog
                 ELSE /\ rpc' = "negotiating"
                      /\ phaseLog' = Append(phaseLog, <<cur, phase>>)
                      /\ UNCHANGED status
       ELSE /\ rpc' = "negotiating"
            /\ phaseLog' = Append(phaseLog, <<cur, phase>>)
            /\ UNCHANGED <<status, rejectedFrom>>
            /\ UNCHANGED capVars
  /\ UNCHANGED <<constellation, numRegs, maxItems, cur, phase, startLog,
                 lastMatches, statsRows, raisedBy>>
  /\ UNCHANGED <<retryVars, batchVars, auxVars>>

\* the payload of the phase: a match naming supplier s, or a POS record
Payload(s) ==
  [key |-> RegIds[cur], ver |-> TotalAppended + 1,
   supplier_id |-> IF HasMatcher1(constellation[phase].roles) THEN s ELSE NoSupplier]

\* self._last_matches after the output of the phase is handled
MatchesAfter(s) ==
  IF HasMatcher1(constellation[phase].roles)
    THEN Append(lastMatches, Payload(s))
    ELSE lastMatches

\* process_pair reports no success: return None
PhaseFails ==
  /\ rpc = "negotiating"
  /\ RegistrationFails
  /\ UNCHANGED <<constellation, numRegs, maxItems, cur, phase, startLog, phaseLog,
                 lastMatches, statsRows, rejectedFrom, raisedBy>>
  /\ UNCHANGED <<capVars, retryVars, batchVars, auxVars>>

\* process_pair reports success with a payload naming s: the payload goes to
\* the batch writer, then the capacity update after the phase, then the
\* next phase or update_runtime and the return of offers
PhaseSucceeds(s) ==
  /\ rpc = "negotiating"
  /\ IF HasMatcher1(constellation[phase].roles)
       THEN AppendEffect("matches", Payload(s))
       ELSE IF HasMatcher2(constellation[phase].roles)
         THEN AppendEffect("pos", Payload(s))
         ELSE UNCHANGED <<bwKeys, bwBuf, bwCount, bwAppended, flushers, bwAutoFlushes>>
  /\ lastMatches' = MatchesAfter(s)
  /\ IF constellation[phase].capacity_update_after /\ MatchesAfter(s) # <<>>
       THEN /\ RunUpdateCapacity(MatchesAfter(s))
            /\ RefusalNoted(UpdateResult(Last(MatchesAfter(s)).supplier_id), phase + 1)
       ELSE UNCHANGED <<capVars, rejectedFrom>>
  /\ IF /\ constellation[phase].capacity_update_after /\ MatchesAfter(s) # <<>>
        /\ CapacityFailed(UpdateResult(Last(MatchesAfter(s)).supplier_id))
       THEN /\ RegistrationFails
            /\ UNCHANGED <<phase, statsRows>>
       ELSE IF phase = Len(constellation)
         THEN /\ statsRows' = statsRows \cup {cur}
              /\ status' = [status EXCEPT ![cur] = "DONE"]
              /\ rpc' = LoopAfter("DONE")
              /\ UNCHANGED phase
         ELSE /\ phase' = phase + 1
              /\ rpc' = "phase"
              /\ UNCHANGED <<status, statsRows>>
  /\ UNCHANGED <<constellation, numRegs, maxItems, cur, startLog, phaseLog, raisedBy>>
  /\ UNCHANGED <<bwBatchSize, disk, bwClient>>
  /\ UNCHANGED <<retryVars, auxVars>>

\* process_pair raises: nothing between it and the caller of run() has an
\* except clause for the exception, so run() ends with it
PhaseRaises(e) ==
  /\ rpc = "negotiating"
  /\ rpc' = "raised"
  /\ raisedBy' = e
  /\ status' = [status EXCEPT ![cur] = "ABORTED"]
  /\ UNCHANGED <<constellation, numRegs, maxItems, cur, phase, startLog, phaseLog,
                 lastMatches, statsRows, rejectedFrom>>
  /\ UNCHANGED <<capVars, retryVars, batchVars, auxVars>>

\* ConfigurableWorkflow.run after super().run(): the final flush
FinalFlush ==
  /\ rpc = "exit"
  /\ rpc' = "final"
  /\ IF PendingCount > 0
       THEN FlushAllEffect
       ELSE /\ bwClient' = "ended"
            /\ UNCHANGED flushers
  /\ UNCHANGED <<bwBatchSize, bwKeys, bwBuf, bwCount, disk, bwAppended, bwAutoFlushes>>
  /\ UNCHANGED <<constellation, numRegs, maxItems, cur, phase, status, startLog,
                 phaseLog, lastMatches, statsRows, rejectedFrom, raisedBy>>
  /\ UNCHANGED <<capVars, retryVars, auxVars>>

RunIdle ==
  /\ rpc = "init"
  /\ cur = 0
  /\ phase = 0
  /\ status = [i \in 1..numRegs |-> "PENDING"]
  /\ startLog = <<>>
  /\ phaseLog = <<>>
  /\ lastMatches = <<>>
  /\ statsRows = {}
  /\ rejectedFrom = [i \in 1..numRegs |-> 0]
  /\ raisedBy = "none"

RunUnused ==
  /\ constellation = <<>>
  /\ numRegs = 0
  /\ maxItems = 0
  /\ RunIdle

(***************************************************************************)
(* The JSON list store: update_json_list, and the batch writer flushing    *)
(* into a file that already exists.  A stored record carries its two key   *)
(* fields, NoKey standing for a field that is absent or empty.             *)
(***************************************************************************)
NoKey == ""

Entry(rid, legacy, v) ==
  [registration_id |-> rid, RegistrationNumber |-> legacy, v |-> v]

\* the records the model stores: two versions under one primary key, a
\* second primary key, a record with the legacy key only, one with no key
StoreEntries ==
  { Entry("R1", NoKey, 1), Entry("R1", NoKey, 2), Entry("R2", NoKey, 1),
    Entry(NoKey, "R1", 3), Entry(NoKey, NoKey, 4) }

\* new_entry: a dict, a single-item list, or a list of two items
StoreInputs ==
  { [shape |-> "dict", entry |-> e] : e \in StoreEntries }
    \cup { [shape |-> sh, entry |-> Entry("R1", NoKey, 2)] : sh \in {"list1", "list2"} }

\* entry.get(registration_key) or entry.get("RegistrationNumber")
EntryKey(e) ==
  IF e.registration_id # NoKey THEN e.registration_id ELSE e.RegistrationNumber

RECURSIVE ListsUpTo(_, _)
ListsUpTo(S, n) ==
  IF n = 0 THEN {<<>>}
  ELSE ListsUpTo(S, n - 1)
         \cup { Append(l, e) : l \in { x \in ListsUpTo(S, n - 1) : Len(x) = n - 1 }, e \in S }

\* the files a store operation can find
StoredFiles ==
  {AbsentDisk, InvalidDisk, NonListDisk}
    \cup { ListDisk(l) : l \in ListsUpTo(StoreEntries, MaxStored) }

\* existing_list of update_json_list: [] for a missing file, for content that
\* is not JSON and for JSON that is not a list
ReadForUpsert(file) == IF file.kind = "data" THEN file.data ELSE <<>>

\* the first position of list whose record has key k, 0 when there is none
RECURSIVE FirstWithKey(_, _, _)
FirstWithKey(list, k, i) ==
  IF i > Len(list) THEN 0
  ELSE IF EntryKey(list[i]) = k THEN i
  ELSE FirstWithKey(list, k, i + 1)

\* the mutant of the upsert: the stored record is removed and the new one
\* added at the end
UpsertMovesToEnd(list, e) ==
  Append(SelectSeq(list, LAMBDA r : EntryKey(r) # EntryKey(e)), e)

\* the for loop over existing_list and the append that follows it
UpsertList(list, e) ==
  IF FirstWithKey(list, EntryKey(e), 1) = 0 THEN Append(list, e)
  ELSE [list EXCEPT ![FirstWithKey(list, EntryKey(e), 1)] = e]

\* the mutant of the write: the record is added without looking for its key
FileAfterAppend(file, inp) ==
  IF inp.shape = "list2" THEN file
  ELSE IF EntryKey(inp.entry) = NoKey THEN file
  ELSE ListDisk(Append(ReadForUpsert(file), inp.entry))

\* the file after update_json_list(file, inp): nothing is written for a
\* new_entry that is no dict and for one that has no key
FileAfterUpsert(file, inp) ==
  IF inp.shape = "list2" THEN file
  ELSE IF EntryKey(inp.entry) = NoKey THEN file
  ELSE ListDisk(UpsertList(ReadForUpsert(file), inp.entry))

\* update_json_list(file_path, new_entry, logger)
Upsert(inp) ==
  /\ Len(lsApplied) < MaxStoreOps
  /\ lsFile' = FileAfterUpsert(lsFile, inp)
  /\ lsApplied' = Append(lsApplied, inp)
  /\ lsHist' = Append(lsHist, FileAfterUpsert(lsFile, inp))
  /\ UNCHANGED disk0
  /\ UNCHANGED notStoreVars

\* save_json: entry.get("RegistrationNumber") or entry.get("registration_id")
SaveKey(e) ==
  IF e.RegistrationNumber # NoKey THEN e.RegistrationNumber ELSE e.registration_id

\* data_dict[key] = entry: a key that is present keeps its place
DictPut(dict, e) ==
  IF \E i \in 1..Len(dict) : SaveKey(dict[i]) = SaveKey(e)
    THEN [dict EXCEPT ![CHOOSE i \in 1..Len(dict) : SaveKey(dict[i]) = SaveKey(e)] = e]
    ELSE Append(dict, e)

\* the two loops of save_json that fill data_dict: an entry without a key
\* is not put into it
RECURSIVE SaveDict(_, _)
SaveDict(dict, entries) ==
  IF entries = <<>> THEN dict
  ELSE SaveDict(IF SaveKey(Head(entries)) = NoKey THEN dict
                ELSE DictPut(dict, Head(entries)),
                Tail(entries))

\* the file after save_json(data, file):
\* final_data = list(data_dict.values()) if data_dict else data
FileAfterSave(file, data) ==
  LET data_dict == SaveDict(SaveDict(<<>>, ReadForUpsert(file)), data)
  IN ListDisk(IF data_dict # <<>> THEN data_dict ELSE data)

\* the lists of records handed to save_json
SaveInputs == ListsUpTo(StoreEntries, 2)

\* save_json(data, file_path)
SaveJson(data) ==
  /\ Len(lsApplied) < MaxStoreOps
  /\ lsFile' = FileAfterSave(lsFile, data)
  /\ lsApplied' = Append(lsApplied, [shape |-> "save", entry |-> data])
  /\ lsHist' = Append(lsHist, FileAfterSave(lsFile, data))
  /\ UNCHANGED disk0
  /\ UNCHANGED notStoreVars

\* a phase output handed to the batch writer of a run whose matches file
\* exists already
StoreAppend(e) ==
  /\ bwClient = "running"
  /\ TotalAppended < MaxStoreOps
  /\ AppendEffect("matches", e)
  /\ UNCHANGED <<bwBatchSize, disk, bwClient>>
  /\ UNCHANGED notBatchVars

StoreUnused ==
  /\ lsFile = AbsentDisk
  /\ lsApplied = <<>>
  /\ lsHist = <<>>
  /\ disk0 = AbsentDisk

(***************************************************************************)
(* _extract_json_before_approve and _extract_braced_content.  A text is a  *)
(* sequence of characters.  The alphabet of the texts below has no digit   *)
(* and spells none of the JSON literals, so that a JSON document over it   *)
(* is a string, an array or an object; a string has no escape.             *)
(***************************************************************************)
Whitespace == {" ", "\n"}

Approve == <<"A", "P", "P", "R", "O", "V", "E">>

ApproveVariants ==
  { Approve,
    <<"a", "p", "p", "r", "o", "v", "e">>,
    <<"A", "p", "p", "r", "o", "v", "e">> }

\* The backquote, one character of a text.
Backquote == "backquote"

FenceClose == <<Backquote, Backquote, Backquote>>

FenceOpen == FenceClose \o <<"j", "s", "o", "n">>

MinOf(S) == CHOOSE m \in S : \A n \in S : m <= n

\* The German sharp s, one character of a text.
SharpS == "sharp-s"

\* str.upper() of one character: the sharp s has a two-letter upper case.
UpperChar(c) ==
  CASE c = SharpS -> <<"S", "S">>
    [] c = "a" -> <<"A">>
    [] c = "p" -> <<"P">>
    [] c = "r" -> <<"R">>
    [] c = "o" -> <<"O">>
    [] c = "v" -> <<"V">>
    [] c = "e" -> <<"E">>
    [] c = "j" -> <<"J">>
    [] c = "s" -> <<"S">>
    [] c = "n" -> <<"N">>
    [] c = "k" -> <<"K">>
    [] c = "x" -> <<"X">>
    [] OTHER -> <<c>>

RECURSIVE Upper(_)
Upper(t) == IF t = <<>> THEN <<>> ELSE UpperChar(Head(t)) \o Upper(Tail(t))

\* str.find with a start offset: indices count from 0, -1 when absent.
FindFrom(t, pat, from) ==
  LET hits == { i \in from..(Len(t) - Len(pat)) :
                  SubSeq(t, i + 1, i + Len(pat)) = pat }
  IN IF hits = {} THEN -1 ELSE MinOf(hits)

Find(t, pat) == FindFrom(t, pat, 0)

\* The slice t[:n] for n >= 0.
Take(t, n) == SubSeq(t, 1, IF n < Len(t) THEN n ELSE Len(t))

\* The slice t[n:] for n >= 0.
Drop(t, n) == SubSeq(t, n + 1, Len(t))

RECURSIVE LStrip(_)
LStrip(t) ==
  IF t # <<>> /\ Head(t) \in Whitespace THEN LStrip(Tail(t)) ELSE t

RECURSIVE RStrip(_)
RStrip(t) ==
  IF t # <<>> /\ t[Len(t)] \in Whitespace
  THEN RStrip(SubSeq(t, 1, Len(t) - 1))
  ELSE t

Strip(t) == RStrip(LStrip(t))

(***************************************************************************)
(* json.loads.  A parsed value is [type, text]: its type and its text      *)
(* without the whitespace between tokens.  ParseValue reads one value at   *)
(* position i (from 1) and answers where it ends.                          *)
(***************************************************************************)
NoneValue == [type |-> "none", text |-> <<>>]

ParseError == [ok |-> FALSE, pos |-> 0, type |-> "none", text |-> <<>>]

Parsed(p, ty, tx) == [ok |-> TRUE, pos |-> p, type |-> ty, text |-> tx]

RECURSIVE SkipWs(_, _)
SkipWs(t, i) ==
  IF i <= Len(t) /\ t[i] \in Whitespace THEN SkipWs(t, i + 1) ELSE i

At(t, i, c) == i <= Len(t) /\ t[i] = c

\* A string starts at the quote at i and runs to the next quote; a raw
\* newline inside it is a control character, which json.loads refuses.
ParseString(t, i) ==
  LET close == { j \in (i + 1)..Len(t) : t[j] = "\"" }
  IN IF ~At(t, i, "\"") \/ close = {}
     THEN ParseError
     ELSE LET j == MinOf(close)
          IN IF \E m \in (i + 1)..(j - 1) : t[m] = "\n"
             THEN ParseError
             ELSE Parsed(j + 1, "str", SubSeq(t, i, j))

RECURSIVE ParseValue(_, _)
RECURSIVE ParseItems(_, _, _)
RECURSIVE ParseMembers(_, _, _)

ParseValue(t, i) ==
  IF i > Len(t) THEN ParseError
  ELSE IF t[i] = "\"" THEN ParseString(t, i)
  ELSE IF t[i] = "[" THEN
    LET j == SkipWs(t, i + 1)
    IN IF At(t, j, "]") THEN Parsed(j + 1, "list", <<"[", "]">>)
       ELSE ParseItems(t, j, <<"[">>)
  ELSE IF t[i] = "{" THEN
    LET j == SkipWs(t, i + 1)
    IN IF At(t, j, "}") THEN Parsed(j + 1, "dict", <<"{", "}">>)
       ELSE ParseMembers(t, j, <<"{">>)
  ELSE ParseError

ParseItems(t, i, acc) ==
  LET v == ParseValue(t, SkipWs(t, i))
      j == SkipWs(t, v.pos)
  IN IF ~v.ok THEN ParseError
     ELSE IF At(t, j, ",") THEN ParseItems(t, j + 1, acc \o v.text \o <<",">>)
     ELSE IF At(t, j, "]") THEN Parsed(j + 1, "list", acc \o v.text \o <<"]">>)
     ELSE ParseError

ParseMembers(t, i, acc) ==
  LET k == ParseString(t, SkipWs(t, i))
      c == SkipWs(t, k.pos)
      v == ParseValue(t, SkipWs(t, c + 1))
      j == SkipWs(t, v.pos)
      sofar == acc \o k.text \o <<":">> \o v.text
  IN IF ~k.ok \/ ~At(t, c, ":") THEN ParseError
     ELSE IF ~v.ok THEN ParseError
     ELSE IF At(t, j, ",") THEN ParseMembers(t, j + 1, sofar \o <<",">>)
     ELSE IF At(t, j, "}") THEN Parsed(j + 1, "dict", sofar \o <<"}">>)
     ELSE ParseError

\* json.loads(t): one value and nothing but whitespace around it; ok is
\* FALSE where json.loads raises JSONDecodeError.
JsonLoads(t) ==
  LET v == ParseValue(t, SkipWs(t, 1))
  IN IF v.ok /\ SkipWs(t, v.pos) = Len(t) + 1
     THEN [ok |-> TRUE, value |-> [type |-> v.type, text |-> v.text]]
     ELSE [ok |-> FALSE, value |-> NoneValue]

\* The truth value Python gives a payload: none and the empty list, object
\* and string are false.
Truthy(v) ==
  /\ v # NoneValue
  /\ v.text \notin {<<"[", "]">>, <<"{", "}">>, <<"\"", "\"">>}

RECURSIVE BracedScan(_, _, _, _, _)
BracedScan(s, i, stack, start_char, end_char) ==
  IF i < Len(s) /\ stack > 0
  THEN BracedScan(s, i + 1,
                  IF s[i + 1] = start_char THEN stack + 1
                  ELSE IF s[i + 1] = end_char THEN stack - 1
                  ELSE stack,
                  start_char, end_char)
  ELSE [i |-> i, stack |-> stack]

ExtractBracedContent(s) ==
  IF s = <<>> THEN s
  ELSE IF s[1] \notin {"[", "{"} THEN s
  ELSE LET end_char == IF s[1] = "{" THEN "}" ELSE "]"
           scan == BracedScan(s, 1, 1, s[1], end_char)
       IN IF scan.stack = 0 THEN Take(s, scan.i) ELSE s

\* The index the search for APPROVE answers: it is an index into the
\* upper-cased text.
ApproveIndex(output) ==
  LET hits == { Find(Upper(output), v) : v \in ApproveVariants } \ {-1}
  IN IF hits = {} THEN -1 ELSE MinOf(hits)

ParseContent(output) ==
  LET approve_index == ApproveIndex(output)
  IN IF approve_index # -1 THEN Strip(Take(output, approve_index)) ELSE output

\* re.search of the fence pattern (three backquotes, json, \s*, a lazy
\* group, \s*, three backquotes) with DOTALL: the first opening fence,
\* then the first closing fence after it; group 1 is what lies between
\* them, without the whitespace at its two ends.
FencedBlock(t) ==
  LET o == Find(t, FenceOpen)
      c == FindFrom(t, FenceClose, o + Len(FenceOpen))
  IN IF o = -1 \/ c = -1
     THEN [found |-> FALSE, body |-> <<>>]
     ELSE [found |-> TRUE,
           body |-> Strip(SubSeq(t, o + Len(FenceOpen) + 1, c))]

FirstBracket(t) ==
  IF Find(t, <<"[">>) # -1 THEN Find(t, <<"[">>) ELSE Find(t, <<"{">>)

LastResort(t) ==
  LET start_idx == FirstBracket(t)
      loaded == JsonLoads(ExtractBracedContent(Drop(t, start_idx)))
  IN IF start_idx # -1 /\ loaded.ok THEN loaded.value ELSE NoneValue

ExtractFallsBackAfterFence(output) ==
  IF Strip(output) = <<>> THEN NoneValue
  ELSE LET parse_content == ParseContent(output)
           json_match == FencedBlock(parse_content)
           whole == JsonLoads(parse_content)
       IN IF json_match.found /\ JsonLoads(json_match.body).ok
          THEN JsonLoads(json_match.body).value
          ELSE IF whole.ok /\ whole.value.type \in {"list", "dict"}
               THEN whole.value
               ELSE LastResort(parse_content)

ExtractJsonBeforeApprove(output) ==
  IF Strip(output) = <<>> THEN NoneValue
  ELSE LET parse_content == ParseContent(output)
           json_match == FencedBlock(parse_content)
           whole == JsonLoads(parse_content)
       IN IF json_match.found
          THEN JsonLoads(json_match.body).value
          ELSE IF whole.ok /\ whole.value.type \in {"list", "dict"}
               THEN whole.value
               ELSE LastResort(parse_content)

(***************************************************************************)
(* The transcripts the extractor is applied to: a prefix (a padding of     *)
(* sharp s characters, then a core), an approval mark and a suffix.        *)
(***************************************************************************)
OneItem == <<"[", "\"", "k", "\"", "]">>

OtherItem == <<"[", "\"", "x", "\"", "]">>

EmptyList == <<"[", "]">>

EmptyObject == <<"{", "}">>

Scalar == <<"\"", "k", "\"">>

Prose == <<"x">>

Fenced(body) == FenceOpen \o <<"\n">> \o body \o <<"\n">> \o FenceClose

RECURSIVE Pad(_)
Pad(n) == IF n = 0 THEN <<>> ELSE <<SharpS>> \o Pad(n - 1)

Cores ==
  { <<>>,
    <<" ">>,
    Prose,
    OneItem,
    <<" ">> \o OneItem \o <<"\n">>,
    Prose \o <<" ">> \o OneItem \o <<" ">> \o Prose,
    EmptyList,
    EmptyObject,
    Scalar,
    <<"[">>,
    <<"[", "[", "]">>,
    <<"{", "\"", "k", "\"", ":">> \o OneItem \o <<"}">>,
    Prose \o <<"{", "\"", "k", "\"", ":">> \o OneItem \o <<"}">>,
    <<"[", "\"", "]", "\"", "]">>,
    Fenced(OneItem),
    Fenced(Scalar),
    Fenced(Prose) \o OneItem,
    FenceOpen \o OneItem }

Marks == ApproveVariants \cup {<<>>}

Suffixes == {<<>>, Prose, OneItem, EmptyList}

ExOutput == exPrefix \o exMark \o exSuffix

\* One call of the extractor on the transcript.
ExtractCall ==
  /\ exPc = "idle"
  /\ exResult' = ExtractJsonBeforeApprove(ExOutput)
  /\ exPc' = "done"
  /\ UNCHANGED <<exPrefix, exMark, exSuffix, notExtractVars>>

ExtractUnused ==
  /\ exPrefix = <<>>
  /\ exMark = <<>>
  /\ exSuffix = <<>>
  /\ exResult = NoneValue
  /\ exPc = "idle"

(***************************************************************************)
(* process_pair: the consumer of one session's event stream.  A session is *)
(* run for a team of agents; is_group is read off the phase name.  The     *)
(* events are text and structured messages and, last, the TaskResult.      *)
(***************************************************************************)
Matchers == {"matcher1", "matcher2"}

Critics == {"critic1"}

\* The teams of a phase: a single producer, a producer with a reviewer,
\* and the group of two producers and a reviewer.
Teams ==
  { [is_group |-> FALSE, agents |-> {"matcher1"}],
    [is_group |-> FALSE, agents |-> {"matcher1", "critic1"}],
    [is_group |-> TRUE, agents |-> {"matcher1", "critic1", "matcher2"}] }

MatcherTexts == {OneItem, OtherItem, EmptyList, EmptyObject, Prose}

CriticTexts == {Prose, Approve, <<"a", "p", "p", "r", "o", "v", "e">>}

StructuredData == { [type |-> "list", text |-> OneItem],
                    [type |-> "list", text |-> EmptyList] }

NoStop == <<>>

MaxMessagesStop == <<"M", "a", "x">>

ApproveStop == <<"T", "e", "x", "t", " ">> \o Approve

StopReasons == {NoStop, MaxMessagesStop, ApproveStop}

\* "APPROVE" in text.upper()
MentionsApprove(text) == Find(Upper(text), Approve) # -1

Failure == [success |-> FALSE, json_output |-> NoneValue]

\* The return statements after the stream has ended.
ReturnValueIgnoringMatcher1(is_group, success, json_output, matches, pos) ==
  IF ~success THEN Failure
  ELSE IF is_group
  THEN IF ~Truthy(pos) THEN Failure
       ELSE [success |-> TRUE,
             json_output |-> [matches |-> matches, pos |-> pos]]
  ELSE IF ~Truthy(json_output) THEN Failure
       ELSE [success |-> TRUE, json_output |-> json_output]

ReturnValue(is_group, success, json_output, matches, pos) ==
  IF ~success THEN Failure
  ELSE IF is_group
  THEN IF ~Truthy(matches) THEN Failure
       ELSE IF ~Truthy(pos) THEN Failure
       ELSE [success |-> TRUE,
             json_output |-> [matches |-> matches, pos |-> pos]]
  ELSE IF ~Truthy(json_output) THEN Failure
       ELSE [success |-> TRUE, json_output |-> json_output]

Logged(event) == ppLog' = Append(ppLog, event)

Streaming == ppPc = "stream" /\ Len(ppLog) < MaxMsgs

\* The task message comes back first, as a text message of the user.
PairUserText ==
  /\ Streaming
  /\ ppLog = <<>>
  /\ Logged([kind |-> "text", source |-> "user", content |-> Prose])
  /\ UNCHANGED <<ppGroup, ppAgents, ppSuccess, ppOut, ppOut1, ppOut2, ppJson,
                 ppMatches, ppPos, ppPc, ppResult, notPairVars>>

PairMatcherText(src, content) ==
  /\ Streaming
  /\ src \in ppAgents \cap Matchers
  /\ Logged([kind |-> "text", source |-> src, content |-> content])
  /\ IF ppGroup /\ src = "matcher1"
     THEN /\ ppOut1' = ppOut1 \o content
          /\ ppMatches' = ExtractJsonBeforeApprove(ppOut1 \o content)
          /\ UNCHANGED <<ppSuccess, ppOut, ppOut2, ppJson, ppPos>>
     ELSE IF ppGroup /\ src = "matcher2"
     THEN /\ ppOut2' = ppOut2 \o content
          /\ ppPos' = ExtractJsonBeforeApprove(ppOut2 \o content)
          /\ ppSuccess' = IF ExtractJsonBeforeApprove(ppOut2 \o content) # NoneValue
                          THEN TRUE ELSE ppSuccess
          /\ UNCHANGED <<ppOut, ppOut1, ppJson, ppMatches>>
     ELSE /\ ppOut' = ppOut \o content
          /\ ppJson' = ExtractJsonBeforeApprove(ppOut \o content)
          /\ ppSuccess' = IF ExtractJsonBeforeApprove(ppOut \o content) # NoneValue
                          THEN TRUE ELSE ppSuccess
          /\ UNCHANGED <<ppOut1, ppOut2, ppMatches, ppPos>>
  /\ UNCHANGED <<ppGroup, ppAgents, ppPc, ppResult, notPairVars>>

PairMatcherStructured(src, data) ==
  /\ Streaming
  /\ src \in ppAgents \cap Matchers
  /\ Logged([kind |-> "structured", source |-> src, content |-> data.text])
  /\ IF ppGroup /\ src = "matcher1"
     THEN /\ ppMatches' = data
          /\ ppSuccess' = (data # NoneValue)
          /\ UNCHANGED <<ppJson, ppPos>>
     ELSE IF ppGroup /\ src = "matcher2"
     THEN /\ ppPos' = data
          /\ ppSuccess' = IF data # NoneValue THEN TRUE ELSE ppSuccess
          /\ UNCHANGED <<ppJson, ppMatches>>
     ELSE /\ ppJson' = data
          /\ ppSuccess' = IF data # NoneValue THEN TRUE ELSE ppSuccess
          /\ UNCHANGED <<ppMatches, ppPos>>
  /\ UNCHANGED <<ppGroup, ppAgents, ppOut, ppOut1, ppOut2, ppPc, ppResult,
                 notPairVars>>

PairCriticText(src, content) ==
  /\ Streaming
  /\ src \in ppAgents \cap Critics
  /\ Logged([kind |-> "text", source |-> src, content |-> content])
  /\ ppSuccess' = IF MentionsApprove(content)
                  THEN IF ~ppGroup THEN TRUE
                       ELSE Truthy(ppMatches) /\ Truthy(ppPos)
                  ELSE ppSuccess
  /\ UNCHANGED <<ppGroup, ppAgents, ppOut, ppOut1, ppOut2, ppJson, ppMatches,
                 ppPos, ppPc, ppResult, notPairVars>>

\* The TaskResult ends the stream.  For a group the lookup json_outputs["1"]
\* raises KeyError.
PairTaskResult(stop) ==
  /\ ppPc = "stream"
  /\ Logged([kind |-> "result", source |-> "", content |-> stop])
  /\ IF stop # NoStop /\ MentionsApprove(stop)
     THEN IF ppGroup
          THEN ppPc' = "raised" /\ UNCHANGED ppSuccess
          ELSE ppPc' = "ended" /\ ppSuccess' = TRUE
     ELSE ppPc' = "ended" /\ UNCHANGED ppSuccess
  /\ UNCHANGED <<ppGroup, ppAgents, ppOut, ppOut1, ppOut2, ppJson, ppMatches,
                 ppPos, ppResult, notPairVars>>

PairReturn ==
  /\ ppPc = "ended"
  /\ ppPc' = "returned"
  /\ ppResult' = ReturnValue(ppGroup, ppSuccess, ppJson, ppMatches, ppPos)
  /\ UNCHANGED <<ppGroup, ppAgents, ppSuccess, ppOut, ppOut1, ppOut2, ppJson,
                 ppMatches, ppPos, ppLog, notPairVars>>

PairStart ==
  /\ ppSuccess = FALSE
  /\ ppOut = <<>>
  /\ ppOut1 = <<>>
  /\ ppOut2 = <<>>
  /\ ppJson = NoneValue
  /\ ppMatches = NoneValue
  /\ ppPos = NoneValue
  /\ ppPc = "stream"
  /\ ppResult = Failure
  /\ ppLog = <<>>

PairUnused ==
  /\ ppGroup = FALSE
  /\ ppAgents = {}
  /\ PairStart

(***************************************************************************)
(* Configuration and start-up: WorkflowConfig.__post_init__, the           *)
(* constructor of ConfigurableWorkflow, _initialize and _load_data.  A     *)
(* path is a sequence of its parts; None is the empty sequence.            *)
(***************************************************************************)
PathSettings ==
  {"registrations_file", "offers_file", "capacity_file", "matches_file",
   "pos_file", "stats_file"}

None == <<>>

NoValue == "None"

\* the truth value of data_dir and of scenario
Given(x) == x \notin {NoValue, ""}

Explicit(k) == <<"custom", k>>

SmartPath(k, c) ==
  CASE k = "registrations_file" -> <<c.data_dir, "registrations", c.scenario, ".json">>
    [] k = "offers_file" -> <<c.data_dir, "offers", "base_offers.json">>
    [] k = "capacity_file" -> <<c.data_dir, "capacity", c.scenario, ".json">>
    [] k = "matches_file" -> <<c.data_dir, "results", c.constellation, "_matches.json">>
    [] k = "pos_file" -> <<c.data_dir, "results", c.constellation, "_pos.json">>
    [] k = "stats_file" -> <<c.data_dir, "results", c.constellation, "_stats.csv">>

DefaultPath(k) ==
  CASE k = "registrations_file" -> <<"registrations.json">>
    [] k = "offers_file" -> <<"offers.json">>
    [] k = "capacity_file" -> <<"capacity.json">>
    [] k = "matches_file" -> <<"matches.json">>
    [] k = "pos_file" -> <<"pos.json">>
    [] k = "stats_file" -> <<"execution_times.csv">>

PathsSmartFirst(c) ==
  [k \in PathSettings |->
     IF Given(c.data_dir) /\ Given(c.scenario) THEN SmartPath(k, c)
     ELSE IF c.paths[k] = None THEN DefaultPath(k)
     ELSE c.paths[k]]

PathsAfterPostInit(c) ==
  LET smart == [k \in PathSettings |->
                  IF Given(c.data_dir) /\ Given(c.scenario) /\ c.paths[k] = None
                  THEN SmartPath(k, c)
                  ELSE c.paths[k]]
  IN [k \in PathSettings |->
        IF smart[k] = None THEN DefaultPath(k) ELSE smart[k]]

PostInit ==
  /\ cfgPc = "new"
  /\ cfg' = [cfg EXCEPT !.paths = PathsAfterPostInit(cfg)]
  /\ cfgPc' = "configured"
  /\ UNCHANGED <<cfg0, descriptors, cfgError, written, regs0, regs, notConfigVars>>

\* the names the error message of the constructor lists
ListedConstellations == {"p1m1m2c", "p1m1c1m2c2", "p1m1_p2m2", "p1m1c1_p2m2c2"}

NoError == [type |-> "none", names |-> {}]

ConstructedUnchecked(name, present) == [pc |-> "constructed", error |-> NoError]

Constructed(name, present) ==
  IF name \in present
  THEN [pc |-> "constructed", error |-> NoError]
  ELSE [pc |-> "config_error",
        error |-> [type |-> "FileNotFoundError", names |-> ListedConstellations]]

Construct ==
  /\ cfgPc = "configured"
  /\ cfgPc' = Constructed(cfg.constellation, descriptors).pc
  /\ cfgError' = Constructed(cfg.constellation, descriptors).error
  /\ UNCHANGED <<cfg0, cfg, descriptors, written, regs0, regs, notConfigVars>>

\* _initialize: init_csv writes the header of the stats file.
Initialize ==
  /\ cfgPc = "constructed"
  /\ written' = written \cup {"stats"}
  /\ cfgPc' = "initialized"
  /\ UNCHANGED <<cfg0, cfg, descriptors, cfgError, regs0, regs, notConfigVars>>

Missing == "missing"

\* a registration, by its two key fields
RawRegistrations ==
  [registration_id : {Missing, "R1"}, RegistrationNumber : {Missing, "R2"}]

\* the registrations file: a JSON list, or JSON that is not a list
RegistrationFiles ==
  {NonListDisk} \cup { ListDisk(l) : l \in ListsUpTo(RawRegistrations, MaxLoaded) }

NormalizedOverwriting(reg) ==
  IF reg.RegistrationNumber # Missing
  THEN [registration_id |-> reg.RegistrationNumber, RegistrationNumber |-> Missing]
  ELSE reg

Normalized(reg) ==
  IF reg.RegistrationNumber # Missing /\ reg.registration_id = Missing
  THEN [registration_id |-> reg.RegistrationNumber, RegistrationNumber |-> Missing]
  ELSE reg

\* _load_data, and the ValueError that run() catches when the file does
\* not hold a list.
LoadData(file) ==
  /\ cfgPc = "initialized"
  /\ regs0' = file.data
  /\ IF file.kind # "data"
     THEN cfgPc' = "returned" /\ UNCHANGED regs
     ELSE /\ cfgPc' = "loaded"
          /\ regs' = [i \in 1..Len(file.data) |-> Normalized(file.data[i])]
  /\ UNCHANGED <<cfg0, cfg, descriptors, cfgError, written, notConfigVars>>

ConfigUnused ==
  /\ cfg0 = None
  /\ cfg = None
  /\ descriptors = {}
  /\ cfgPc = "new"
  /\ cfgError = NoError
  /\ written = {}
  /\ regs0 = <<>>
  /\ regs = <<>>

(***************************************************************************)
(* The stats sink: csv_utils.init_csv and csv_utils.update_runtime, and    *)
(* the calls the workflows make to record a registration's times.  A name  *)
(* (a column, a keyword) is the sequence of its words, joined by "_" in    *)
(* the program; a time is a number of microseconds.                        *)
(***************************************************************************)
\* the keyword parameters of update_runtime that carry a time
UpdateRuntimeParams ==
  {<<"t", "group">>, <<"t", "pair1">>, <<"t", "pair2">>, <<"t", "matcher1">>,
   <<"t", "matcher2">>, <<"t", "matcher1", "critic">>}

\* the column update_runtime writes a parameter to: t_pair1 -> pair1_time_seconds
ColumnOfParam(p) == Tail(p) \o <<"time", "seconds">>

\* timing_key.replace("_seconds", "")
TimingKey(column) ==
  <<Head(column)>> \o SelectSeq(Tail(column), LAMBDA w : w # "seconds")

\* f"{t:.3f}": the time shown with three decimals, that is in milliseconds
Format3(t) == (t + 500) \div 1000

\* phase.name of the phases of a constellation, in order
StatsPhaseNames == << <<"phase1">>, <<"phase2">> >>

\* constellation.timing_columns, as a descriptor may list them
TimingColumnLists ==
  { << <<"pair1", "time", "seconds">> >>,
    << <<"group", "time", "seconds">> >>,
    << <<"t", "group", "seconds">> >>,
    << <<"pair1", "time", "seconds">>, <<"pair2", "time", "seconds">> >>,
    << <<"matcher1", "critic", "time", "seconds">>,
       <<"matcher2", "time", "seconds">> >> }

\* elapsed times that are no ties of the rounding to milliseconds
StatsTimes == {1499, 2501}

StatsIds == {"R1", "R2"}

NaN == "NaN"

AbsentCsv == [exists |-> FALSE, columns |-> {}, rows |-> <<>>]

NoStatsCall == [seq |-> 0, who |-> "none", id |-> "", times |-> <<>>, result |-> "none"]

\* timing_data when every phase of the registration has succeeded: the
\* phase time under the shortened column name, the detail times (which
\* Timer keeps under nested keys, so the lookups give 0) under phase keys
TimingData(columns, times, wrote) ==
  LET n == Len(columns)
      main == {TimingKey(columns[i]) : i \in 1..n}
      detail == {StatsPhaseNames[i] \o <<"agent", "conversation">> : i \in 1..n}
                  \cup {StatsPhaseNames[i] \o <<"file", "write">> : i \in wrote}
      last(k) == CHOOSE i \in 1..n :
                   /\ TimingKey(columns[i]) = k
                   /\ \A j \in 1..n : TimingKey(columns[j]) = k => j <= i
  IN [k \in main \cup detail |-> IF k \in main THEN times[last(k)] ELSE 0]

\* init_csv: the header is written only when the file does not exist
InitCsv(file, columns) ==
  IF file.exists THEN file
  ELSE [exists |-> TRUE, columns |-> columns, rows |-> <<>>]

\* the body of update_runtime for the parameters that are not None
UpdateRuntime(file, run_id, given) ==
  LET named == {ColumnOfParam(p) : p \in DOMAIN given}
      df == InitCsv(file, named)
      cell(c, old) ==
        IF c \in named
          THEN Format3(given[CHOOSE p \in DOMAIN given : ColumnOfParam(p) = c])
          ELSE old
      concat == df.columns \cup named
      widened(row) ==
        [id |-> row.id,
         t |-> [c \in concat |-> IF c \in df.columns THEN row.t[c] ELSE NaN]]
  IN IF \E i \in 1..Len(df.rows) : df.rows[i].id = run_id
       THEN [df EXCEPT !.rows =
               [i \in 1..Len(df.rows) |->
                  IF df.rows[i].id = run_id
                    THEN [id |-> run_id,
                          t |-> [c \in df.columns |-> cell(c, df.rows[i].t[c])]]
                    ELSE df.rows[i]]]
       ELSE [exists |-> TRUE, columns |-> concat,
             rows |-> Append([i \in 1..Len(df.rows) |-> widened(df.rows[i])],
                             [id |-> run_id,
                              t |-> [c \in concat |-> cell(c, NaN)]])]

\* update_runtime(run_id, filepath=.., **keywords): the keywords are bound
\* to the parameters before the body runs, and the function takes no others
CallUpdateRuntime(file, run_id, keywords) ==
  IF DOMAIN keywords \subseteq UpdateRuntimeParams
    THEN [result |-> "ok", file |-> UpdateRuntime(file, run_id, keywords)]
    ELSE [result |-> "TypeError", file |-> file]

\* ConfigurableWorkflow._initialize: init_csv with the configured columns
StatsInitialize ==
  /\ stPc = "new"
  /\ stPc' = "ready"
  /\ stFile' = InitCsv(stFile, {stCols[i] : i \in 1..Len(stCols)})
  /\ UNCHANGED <<stCols, stLast>>
  /\ UNCHANGED notStatsVars

\* the end of ConfigurableWorkflow._process_registration for a registration
\* whose phases all succeeded: update_runtime(run_id, filepath, **timing_data)
StatsRecord(run_id, times, wrote) ==
  /\ stPc = "ready"
  /\ stLast.seq < MaxStatsCalls
  /\ Len(times) = Len(stCols)
  /\ wrote \subseteq 1..Len(stCols)
  /\ LET call == CallUpdateRuntime(stFile, run_id, TimingData(stCols, times, wrote))
     IN /\ stFile' = call.file
        /\ stLast' = [seq |-> stLast.seq + 1, who |-> "configurable", id |-> run_id,
                      times |-> times, result |-> call.result]
  /\ UNCHANGED <<stCols, stPc>>
  /\ UNCHANGED notStatsVars

\* the call of the older workflows after a phase:
\* update_runtime(run_id, t_pair1=t_pair1, filepath=stats_file)
StatsRecordOne(run_id, p, t) ==
  /\ stLast.seq < MaxStatsCalls
  /\ LET call == CallUpdateRuntime(stFile, run_id, [k \in {p} |-> t])
     IN /\ stFile' = call.file
        /\ stLast' = [seq |-> stLast.seq + 1, who |-> "legacy", id |-> run_id,
                      times |-> <<t>>, result |-> call.result]
  /\ UNCHANGED <<stCols, stPc>>
  /\ UNCHANGED notStatsVars

StatsUnused ==
  /\ stCols = <<>>
  /\ stFile = AbsentCsv
  /\ stPc = "new"
  /\ stLast = NoStatsCall

TextUnused == ExtractUnused /\ PairUnused /\ ConfigUnused /\ StatsUnused

AuxUnused == StoreUnused /\ TextUnused

(***************************************************************************)
(* Specifications                                                          *)
(***************************************************************************)
\* the capacity allocator and its callers
InitCap ==
  /\ CapStart
  /\ offersUsed = NoUsed
  /\ AuxUnused
  /\ RbUnused
  /\ BwUnused
  /\ RunUnused

NextCap ==
  \/ \E p \in Callers, m \in MatchSuppliers : TrackerRead(p, m)
  \/ \E p \in Callers : TrackerOpen(p)
  \/ \E p \in Callers : TrackerClose(p)
  \/ ResetRead
  \/ ResetOpen
  \/ ResetClose
  \/ \E m \in MatchSuppliers : WfUpdate(m)
  \/ \E i \in 1..Len(wtasks) : WriteOpen(i)
  \/ \E i \in 1..Len(wtasks) : WriteDump(i)
  \/ \E i \in 1..Len(wtasks) : WriteClose(i)

SpecCap == InitCap /\ [][NextCap]_vars

\* the allocator beside an offers file that still carries Used values
InitOffers ==
  /\ CapStart
  /\ offersCap = [s \in Suppliers |-> MaxCap]
  /\ offersUsed \in [Suppliers -> {0, MaxCap}]
  /\ AuxUnused
  /\ RbUnused
  /\ BwUnused
  /\ RunUnused

SpecOffers == InitOffers /\ [][NextCap]_vars

\* one run of run_with_backoff, for every max_retries
InitRetry ==
  /\ AuxUnused
  /\ CapUnused
  /\ BwUnused
  /\ RunUnused
  /\ rbMax \in 0..MaxRetries
  /\ rbLogger \in BOOLEAN
  /\ RbIdle

NextRetry ==
  \/ RbBegin
  \/ RbYield
  \/ RbComplete
  \/ RbRateLimited
  \/ RbOtherError
  \/ RbWake

SpecRetry == InitRetry /\ [][NextRetry]_vars

\* a user of an AutoFlushBatchWriter, for every batch size from 2
InitBatch ==
  /\ AuxUnused
  /\ CapUnused
  /\ RbUnused
  /\ RunUnused
  /\ bwBatchSize \in 2..MaxBatch
  /\ BwIdle

NextBatch ==
  \/ \E f \in Files, k \in Keys : ClientAppend(f, k)
  \/ ClientFlushAll
  \/ \E i \in 1..Len(flushers) : FlushBegin(i)
  \/ \E i \in 1..Len(flushers) : FlushRead(i)
  \/ \E i \in 1..Len(flushers) : FlushExtend(i)
  \/ \E i \in 1..Len(flushers) : FlushTruncate(i)
  \/ \E i \in 1..Len(flushers) : FlushCommit(i)
  \/ \E i \in 1..Len(flushers) : FlushClear(i)

SpecBatch == InitBatch /\ [][NextBatch]_vars

\* a user of an AutoFlushBatchWriter that writes to one destination
InitBurst ==
  /\ AuxUnused
  /\ CapUnused
  /\ RbUnused
  /\ RunUnused
  /\ bwBatchSize \in 2..MaxBatch
  /\ BwIdle

NextBurst ==
  \/ BurstAppend
  \/ \E i \in 1..Len(flushers) : FlushBegin(i)
  \/ \E i \in 1..Len(flushers) : FlushRead(i)
  \/ \E i \in 1..Len(flushers) : FlushExtend(i)
  \/ \E i \in 1..Len(flushers) : FlushTruncate(i)
  \/ \E i \in 1..Len(flushers) : FlushCommit(i)
  \/ \E i \in 1..Len(flushers) : FlushClear(i)

SpecBurst == InitBurst /\ [][NextBurst]_vars

\* update_json_list applied to a file in any of its conditions
InitStore ==
  /\ CapUnused
  /\ RbUnused
  /\ BwUnused
  /\ RunUnused
  /\ TextUnused
  /\ lsFile \in StoredFiles
  /\ lsApplied = <<>>
  /\ lsHist = <<lsFile>>
  /\ disk0 = AbsentDisk

NextStore == \E inp \in StoreInputs : Upsert(inp)

SpecStore == InitStore /\ [][NextStore]_vars

\* update_json_list and save_json applied to the same file
NextSave ==
  \/ \E inp \in StoreInputs : Upsert(inp)
  \/ \E data \in SaveInputs : SaveJson(data)

SpecSave == InitStore /\ [][NextSave]_vars

\* the batch writer of a workflow whose matches file is in any condition:
\* fewer records than the batch size, so the one flush is the final one
InitStoreFlush ==
  /\ CapUnused
  /\ RbUnused
  /\ RunUnused
  /\ TextUnused
  /\ lsFile = AbsentDisk
  /\ lsApplied = <<>>
  /\ lsHist = <<>>
  /\ bwBatchSize = WorkflowBatchSize
  /\ bwKeys = <<>>
  /\ bwBuf = [f \in Files |-> <<>>]
  /\ bwCount = [f \in Files |-> 0]
  /\ flushers = <<>>
  /\ disk \in [Files -> StoredFiles]
  /\ disk["pos"] = AbsentDisk
  /\ disk0 = disk["matches"]
  /\ bwClient = "running"
  /\ bwAppended = [f \in Files |-> <<>>]
  /\ bwAutoFlushes = 0

NextStoreFlush ==
  \/ \E e \in StoreEntries : StoreAppend(e)
  \/ ClientFlushAll
  \/ \E i \in 1..Len(flushers) : FlushRead(i)
  \/ \E i \in 1..Len(flushers) : FlushExtend(i)
  \/ \E i \in 1..Len(flushers) : FlushTruncate(i)
  \/ \E i \in 1..Len(flushers) : FlushCommit(i)
  \/ \E i \in 1..Len(flushers) : FlushClear(i)

SpecStoreFlush == InitStoreFlush /\ [][NextStoreFlush]_vars

\* one run of ConfigurableWorkflow over a registrations file, with the
\* result files absent and every Used at 0
\* one call of process_pair, for each team and each stream of at most
\* MaxMsgs messages followed by the TaskResult
InitPair ==
  /\ CapUnused
  /\ RbUnused
  /\ BwUnused
  /\ RunUnused
  /\ StoreUnused
  /\ StatsUnused
  /\ ExtractUnused
  /\ ConfigUnused
  /\ \E team \in Teams : ppGroup = team.is_group /\ ppAgents = team.agents
  /\ PairStart

NextPair ==
  \/ PairUserText
  \/ \E src \in Matchers, content \in MatcherTexts : PairMatcherText(src, content)
  \/ \E src \in Matchers, data \in StructuredData : PairMatcherStructured(src, data)
  \/ \E src \in Critics, content \in CriticTexts : PairCriticText(src, content)
  \/ \E stop \in StopReasons : PairTaskResult(stop)
  \/ PairReturn

SpecPair == InitPair /\ [][NextPair]_vars

\* the extractor applied to every transcript made of a prefix, an approval
\* mark and a suffix
InitExtract ==
  /\ CapUnused
  /\ RbUnused
  /\ BwUnused
  /\ RunUnused
  /\ StoreUnused
  /\ StatsUnused
  /\ PairUnused
  /\ ConfigUnused
  /\ \E n \in 0..MaxPad, core \in Cores : exPrefix = Pad(n) \o core
  /\ exMark \in Marks
  /\ exSuffix \in Suffixes
  /\ exResult = NoneValue
  /\ exPc = "idle"

NextExtract == ExtractCall

SpecExtract == InitExtract /\ [][NextExtract]_vars

\* a configuration with any choice of explicit paths, data_dir and
\* scenario, constructed, initialized and loaded
InitConfig ==
  /\ CapUnused
  /\ RbUnused
  /\ BwUnused
  /\ RunUnused
  /\ StoreUnused
  /\ StatsUnused
  /\ ExtractUnused
  /\ PairUnused
  /\ \E given \in SUBSET PathSettings,
        d \in {NoValue, "", "data"},
        sc \in {NoValue, "overlap"},
        name \in {"p1m1m2c", "p9"} :
       cfg = [paths |-> [k \in PathSettings |->
                           IF k \in given THEN Explicit(k) ELSE None],
              data_dir |-> d, scenario |-> sc, constellation |-> name]
  /\ cfg0 = cfg
  /\ descriptors \in {ListedConstellations, ListedConstellations \ {"p1m1m2c"}}
  /\ cfgPc = "new"
  /\ cfgError = NoError
  /\ written = {}
  /\ regs0 = <<>>
  /\ regs = <<>>

NextConfig ==
  \/ PostInit
  \/ Construct
  \/ Initialize
  \/ \E file \in RegistrationFiles : LoadData(file)

SpecConfig == InitConfig /\ [][NextConfig]_vars

\* the stats file of one run, absent at first, for each list of timing
\* columns
InitStats ==
  /\ CapUnused
  /\ RbUnused
  /\ BwUnused
  /\ RunUnused
  /\ StoreUnused
  /\ ExtractUnused
  /\ PairUnused
  /\ ConfigUnused
  /\ stCols \in TimingColumnLists
  /\ stFile = AbsentCsv
  /\ stPc = "new"
  /\ stLast = NoStatsCall

NextStats ==
  \/ StatsInitialize
  \/ \E run_id \in StatsIds, times \in UNION {[1..n -> StatsTimes] : n \in 1..2},
        wrote \in SUBSET (1..2) : StatsRecord(run_id, times, wrote)
  \/ \E run_id \in StatsIds, p \in UpdateRuntimeParams, t \in StatsTimes :
        StatsRecordOne(run_id, p, t)

SpecStats == InitStats /\ [][NextStats]_vars

InitRun ==
  /\ offersCap \in [Suppliers -> 0..MaxRunCap]
  /\ offersUsed = NoUsed
  /\ capFile \in {AbsentFile, DataFile(InitialCapacity)}
  /\ capCache = [loaded |-> FALSE, data |-> NoData]
  /\ wtasks = <<>>
  /\ tproc = [p \in Callers |-> IdleProc]
  /\ rproc = IdleProc
  /\ calls = 0
  /\ lastCall = [seq |-> 0, who |-> "none", sup |-> NoSupplier, result |-> "none"]
  /\ okCount = [s \in Suppliers |-> 0]
  /\ resets = 0
  /\ RbUnused
  /\ bwBatchSize = WorkflowBatchSize
  /\ BwIdle
  /\ constellation \in Constellations
  /\ numRegs \in 0..MaxRegs
  /\ maxItems \in 0..MaxRegs
  /\ RunIdle
  /\ AuxUnused

\* no flush task exists in a run of fewer than WorkflowBatchSize
\* registrations, so the only flush is the awaited flush_all
NextRun ==
  \/ RunStart
  \/ StartRegistration
  \/ LoopExit
  \/ BeginPhase
  \/ PhaseFails
  \/ \E s \in PayloadSuppliers : PhaseSucceeds(s)
  \/ \E e \in PairExceptions : PhaseRaises(e)
  \/ FinalFlush
  \/ \E i \in 1..Len(wtasks) : WriteOpen(i)
  \/ \E i \in 1..Len(wtasks) : WriteDump(i)
  \/ \E i \in 1..Len(wtasks) : WriteClose(i)
  \/ \E i \in 1..Len(flushers) : FlushTruncate(i)
  \/ \E i \in 1..Len(flushers) : FlushCommit(i)
  \/ \E i \in 1..Len(flushers) : FlushClear(i)

SpecRun == InitRun /\ [][NextRun]_vars

\* a run that processes every registration of a full input list
InitAlloc ==
  /\ offersCap \in [Suppliers -> 0..MaxRunCap]
  /\ offersUsed = NoUsed
  /\ capFile \in {AbsentFile, DataFile(InitialCapacity)}
  /\ capCache = [loaded |-> FALSE, data |-> NoData]
  /\ wtasks = <<>>
  /\ tproc = [p \in Callers |-> IdleProc]
  /\ rproc = IdleProc
  /\ calls = 0
  /\ lastCall = [seq |-> 0, who |-> "none", sup |-> NoSupplier, result |-> "none"]
  /\ okCount = [s \in Suppliers |-> 0]
  /\ resets = 0
  /\ RbUnused
  /\ bwBatchSize = WorkflowBatchSize
  /\ BwIdle
  /\ constellation \in Constellations
  /\ numRegs = MaxRegs
  /\ maxItems = MaxRegs
  /\ RunIdle
  /\ AuxUnused

SpecAlloc == InitAlloc /\ [][NextRun]_vars

\* a single phase whose agents are both producers and the reviewer
GroupConstellations ==
  { <<Phase({"matcher1", "critic", "matcher2"}, FALSE, after)>> : after \in BOOLEAN }

\* a run of a constellation with a two-producer phase, or of one without
InitGroup ==
  /\ offersCap \in [Suppliers -> 0..MaxRunCap]
  /\ offersUsed = NoUsed
  /\ capFile \in {AbsentFile, DataFile(InitialCapacity)}
  /\ capCache = [loaded |-> FALSE, data |-> NoData]
  /\ wtasks = <<>>
  /\ tproc = [p \in Callers |-> IdleProc]
  /\ rproc = IdleProc
  /\ calls = 0
  /\ lastCall = [seq |-> 0, who |-> "none", sup |-> NoSupplier, result |-> "none"]
  /\ okCount = [s \in Suppliers |-> 0]
  /\ resets = 0
  /\ RbUnused
  /\ bwBatchSize = WorkflowBatchSize
  /\ BwIdle
  /\ constellation \in GroupConstellations \cup Constellations
  /\ numRegs = MaxRegs
  /\ maxItems = MaxRegs
  /\ RunIdle
  /\ AuxUnused

SpecGroup == InitGroup /\ [][NextRun]_vars

(***************************************************************************)
(* Properties of the capacity allocator (checked under SpecCap).           *)
(***************************************************************************)
WithinCapacity(data) ==
  \A s \in Suppliers : 0 <= data[s].Used /\ data[s].Used <= data[s].Capacity

\* the capacity map as the next load of the file would see it
FileView == IF capFile.kind = "absent" THEN DataFile(InitialCapacity) ELSE capFile

\* the capacity map the orchestrator's allocator works on
MemView == IF capCache.loaded THEN capCache.data ELSE FileView.data

\* C1: in every reachable state, under any sequence of accepted and rejected
\* increments and resets, every supplier record of the capacity map (in the
\* file, in the cache, in the copy of a call in flight, in a write under
\* way) satisfies 0 <= Used <= Capacity.
C1_UsedWithinCapacity ==
  /\ capFile.kind = "data" => WithinCapacity(capFile.data)
  /\ capCache.loaded => WithinCapacity(capCache.data)
  /\ \A p \in Callers : tproc[p].pc # "idle" => WithinCapacity(tproc[p].local)
  /\ rproc.pc # "idle" => WithinCapacity(rproc.local)
  /\ \A i \in 1..Len(wtasks) : wtasks[i].stage = "dumped" => WithinCapacity(wtasks[i].snap)

\* a full supplier has just been refused, after a reset and a new increment
C1_Witness ==
  /\ lastCall.result = "exceeded"
  /\ resets > 0
  /\ capFile.kind = "data"
  /\ \E s \in Suppliers :
       /\ lastCall.sup = s
       /\ capFile.data[s].Capacity > 0
       /\ capFile.data[s].Used = capFile.data[s].Capacity

\* the step in which an increment is refused for lack of capacity
RejectedStep ==
  /\ lastCall'.seq # lastCall.seq
  /\ lastCall'.result = "exceeded"

\* C2: an increment with Used + 1 > Capacity fails with capacity exceeded
\* and changes nothing: Used and UsedPct of every supplier are the same in
\* memory and in the capacity file, and no write of the map is scheduled.
C2_RejectedChangesNothing ==
  [][RejectedStep =>
       /\ MemView' = MemView
       /\ FileView' = FileView
       /\ wtasks' = wtasks
       /\ \A p \in Callers : tproc'[p].pc = tproc[p].pc
       /\ okCount' = okCount]_vars

\* the orchestrator's allocator has refused a supplier it had filled itself,
\* while the write of the earlier increment is still pending
C2_Witness ==
  /\ lastCall.result = "exceeded"
  /\ lastCall.who = "workflow"
  /\ capCache.loaded
  /\ lastCall.sup \in Suppliers
  /\ capCache.data[lastCall.sup].Used > 0
  /\ Len(wtasks) > 0

\* no call is in flight, and only tracker increments have touched the file
TrackerQuiescent ==
  /\ \A p \in Callers : tproc[p].pc = "idle"
  /\ rproc.pc = "idle"
  /\ resets = 0
  /\ ~capCache.loaded
  /\ wtasks = <<>>

\* C6: the increment is atomic: for any interleaving of concurrent
\* update_supplier_capacity calls on one capacity file, the final Used of a
\* supplier equals the number of calls that reported success for it, and
\* that number never exceeds Capacity.
C6_AtomicIncrement ==
  TrackerQuiescent =>
    \A s \in Suppliers :
      /\ FileView.data[s].Used = okCount[s]
      /\ okCount[s] <= offersCap[s]

(***************************************************************************)
(* Properties of the resilient runner (checked under SpecRetry).           *)
(***************************************************************************)
\* the number of pair.run_stream calls started so far
RbAttemptsMade == IF rbPc = "idle" \/ rbMax = 0 THEN 0 ELSE rbAttempt + 1

\* C7: run_with_backoff makes at most max_retries attempts and sleeps
\* 2^attempt seconds (attempt from 0) after a rate-limited attempt that is
\* not the last: two failures and a successful third attempt give the
\* delays 1s, 2s; max_retries failures in a row re-raise the error with no
\* sleep after the last one.
C7_BackoffSchedule ==
  /\ RbAttemptsMade <= rbMax
  /\ rbFails <= rbMax
  /\ \A i \in 1..Len(rbSleeps) : rbSleeps[i] = Pow2(i - 1)
  /\ Len(rbSleeps) = (IF rbPc = "raised" THEN rbFails - 1 ELSE rbFails)
  /\ rbPc = "raised" <=> (rbMax > 0 /\ rbFails = rbMax)
  /\ (rbPc = "done" /\ rbFails = 2) => rbSleeps = <<1, 2>>
  /\ rbPc = "done" => rbFails < rbMax \/ rbMax = 0

\* the same schedule, for the calls that pass a logger as process_pair does
BackoffScheduleWithLogger == rbLogger => C7_BackoffSchedule

\* two rate-limited attempts, then the third attempt ran to its end
TwoFailuresThenSuccess ==
  /\ rbPc = "done"
  /\ rbMax = 3
  /\ rbFails = 2
  /\ rbAttempt = 2
  /\ rbSleeps = <<1, 2>>

(***************************************************************************)
(* Properties of the batch writer (checked under SpecBatch).               *)
(***************************************************************************)
\* how many times rec occurs in list
Occurrences(list, rec) == Cardinality({i \in 1..Len(list) : list[i] = rec})

\* the final flush_all has returned and no flush task is left
AllFlushesDone == bwClient = "ended" /\ flushers = <<>>

\* C9: delivery is exactly-once: for any interleaving of appends, automatic
\* flush tasks and the final flush_all, once all flushes have completed
\* every appended record is in its destination file exactly once.
C9_ExactlyOnce ==
  AllFlushesDone =>
    \A f \in Files : \A i \in 1..Len(bwAppended[f]) :
      Occurrences(disk[f].data, bwAppended[f][i]) = 1

\* C11: with batch size B, appending B*k records to one destination
\* triggers exactly k automatic flushes and appending fewer than B records
\* triggers none, whether or not a triggered flush has finished before the
\* next append.
C11_AutoFlushCount ==
  LET n == Len(bwAppended["matches"])
  IN /\ n < bwBatchSize => bwAutoFlushes = 0
     /\ n % bwBatchSize = 0 => bwAutoFlushes = n \div bwBatchSize

(***************************************************************************)
(* Properties of the list store (checked under SpecStore and               *)
(* SpecStoreFlush).                                                        *)
(***************************************************************************)
\* the result of upserting the records of batch one after the other
RECURSIVE UpsertAll(_, _)
UpsertAll(list, batch) ==
  IF batch = <<>> THEN list
  ELSE UpsertAll(UpsertList(list, Head(batch)), Tail(batch))

\* no two records of list have the same key
NoDuplicateKeys(list) ==
  \A i, j \in 1..Len(list) :
    (i # j /\ EntryKey(list[i]) # NoKey) => EntryKey(list[i]) # EntryKey(list[j])

\* every record of list has a key
AllKeyed(list) == \A i \in 1..Len(list) : EntryKey(list[i]) # NoKey

\* C12: flushing a buffered batch gives the same file content as upserting
\* each buffered record in append order: a record whose key is already in
\* the file, or earlier in the batch, replaces that record, so the file
\* never holds two records with the same registration id.  Stated for files
\* that hold a list without duplicates and for batches of keyed records.
C12_FlushIsBatchedUpsert ==
  ( /\ AllFlushesDone
    /\ disk0.kind = "data"
    /\ AllKeyed(disk0.data)
    /\ NoDuplicateKeys(disk0.data)
    /\ AllKeyed(bwAppended["matches"]) )
  => /\ disk["matches"].data = UpsertAll(disk0.data, bwAppended["matches"])
     /\ NoDuplicateKeys(disk["matches"].data)

\* the record that the i-th update_json_list call was asked to store
Asked(i) == lsApplied[i].entry

\* C13: upsert is idempotent: upsert(f, r) followed by upsert(f, r) leaves
\* the same list, in length, order and content, as a single upsert(f, r).
C13_UpsertIdempotent ==
  \A i \in 1..(Len(lsApplied) - 1) :
    lsApplied[i + 1] = lsApplied[i] => lsHist[i + 2] = lsHist[i + 1]

\* the same keyed record was upserted twice into a list that held two
\* records
C13_Witness ==
  /\ Len(lsApplied) = 2
  /\ lsApplied[1] = lsApplied[2]
  /\ lsApplied[1].shape = "dict"
  /\ EntryKey(Asked(1)) # NoKey
  /\ lsHist[1].kind = "data"
  /\ Len(lsHist[1].data) = 2
  /\ lsHist[3].kind = "data"

\* C14: upserting a record whose key (registration_id or, failing that,
\* RegistrationNumber) equals the key of a stored record replaces that
\* record at its position: the length, and the order and content of all
\* other records, are unchanged; when no stored record has the key the
\* record is appended at the end.
C14_ReplaceInPlace ==
  \A i \in 1..Len(lsApplied) :
    (lsApplied[i].shape = "dict" /\ EntryKey(Asked(i)) # NoKey) =>
      LET before == ReadForUpsert(lsHist[i])
          after == lsHist[i + 1].data
          hits == { j \in 1..Len(before) : EntryKey(before[j]) = EntryKey(Asked(i)) }
      IN /\ lsHist[i + 1].kind = "data"
         /\ IF hits = {}
              THEN after = Append(before, Asked(i))
              ELSE /\ Len(after) = Len(before)
                   /\ \E j \in hits :
                        /\ after[j] = Asked(i)
                        /\ \A m \in 1..Len(before) : m # j => after[m] = before[m]

\* a record with the legacy key replaced the first of two stored records,
\* which had the same key in its primary field
C14_Witness ==
  /\ Len(lsApplied) = 1
  /\ lsApplied[1].shape = "dict"
  /\ Asked(1).registration_id = NoKey
  /\ Asked(1).RegistrationNumber = "R1"
  /\ lsHist[1].kind = "data"
  /\ Len(lsHist[1].data) = 2
  /\ lsHist[1].data[1].registration_id = "R1"
  /\ lsHist[1].data[2].registration_id = "R2"
  /\ lsHist[2].data[1] = Asked(1)

\* C15: upserting a record that has neither the primary nor the legacy key
\* appends the record verbatim to the stored list; it is not dropped.
C15_UnkeyedAppended ==
  \A i \in 1..Len(lsApplied) :
    (lsApplied[i].shape = "dict" /\ EntryKey(Asked(i)) = NoKey) =>
      /\ lsHist[i + 1].kind = "data"
      /\ lsHist[i + 1].data = Append(ReadForUpsert(lsHist[i]), Asked(i))

\* C16: a write, by upsert or by flush, to a destination that is missing,
\* holds invalid JSON or holds JSON that is not a list takes the existing
\* content for an empty list and does not fail: afterwards the file holds
\* exactly the newly written records.  Stated here for the flush.
C16_BadFileIsEmptyList ==
  (disk0.kind \in {"absent", "invalid", "nonlist"} /\ bwAppended["matches"] # <<>>) =>
    /\ bwClient # "raised"
    /\ AllFlushesDone => disk["matches"] = ListDisk(bwAppended["matches"])

\* the upsert half of C16: a keyed record written to such a file is
\* afterwards the only record of the file
UpsertToleratesBadFile ==
  \A i \in 1..Len(lsApplied) :
    ( /\ lsHist[i].kind \in {"absent", "invalid", "nonlist"}
      /\ lsApplied[i].shape # "list2"
      /\ EntryKey(Asked(i)) # NoKey )
    => lsHist[i + 1] = ListDisk(<<Asked(i)>>)

(***************************************************************************)
(* Properties of the orchestrator (checked under SpecRun).                 *)
(***************************************************************************)
Terminal == {"DONE", "FAILED"}

\* run() has returned to its caller
RunReturned == rpc = "final" /\ bwClient = "ended"

\* run() has ended with an exception
RunRaised == rpc = "raised"

OfOthers(list) == SelectSeq(list, LAMBDA r : r.key # RegIds[cur])

\* C4: when the allocator refuses the increment of a registration because
\* the matched supplier is full, the registration is skipped: none of its
\* later phases runs, Used of the supplier is unchanged, and the match
\* records stored for earlier registrations are unchanged.
C4_RefusedRegistrationSkipped ==
  /\ [](\A i \in 1..numRegs :
          rejectedFrom[i] > 0 =>
            /\ status[i] = "FAILED"
            /\ \A k \in 1..Len(phaseLog) :
                 phaseLog[k][1] = i => phaseLog[k][2] < rejectedFrom[i])
  /\ [][RejectedStep =>
          /\ \A s \in Suppliers : MemView'[s] = MemView[s]
          /\ disk' = disk
          /\ \A f \in Files : OfOthers(bwBuf'[f]) = OfOthers(bwBuf[f])
          /\ OfOthers(lastMatches') = OfOthers(lastMatches)]_vars

\* S with Capacity 1 was taken by the first registration, the second one
\* matched S too and was refused
C4_Witness ==
  /\ Len(startLog) >= 2
  /\ status[1] = "DONE"
  /\ status[2] = "FAILED"
  /\ rejectedFrom[2] > 0
  /\ Len(lastMatches) = 2
  /\ lastMatches[1].supplier_id = lastMatches[2].supplier_id
  /\ lastMatches[1].supplier_id \in Suppliers
  /\ offersCap[lastMatches[1].supplier_id] = 1

\* the number of records of the matches file that name supplier s
MatchesNaming(s) ==
  Cardinality({i \in 1..Len(disk["matches"].data) :
                 disk["matches"].data[i].supplier_id = s})

\* C5: capacity is never oversold in the stored results: at every point of a
\* run that started with empty result files and Used=0, the matches file
\* holds at most Capacity records naming a given supplier.  Stated for the
\* constellations that check capacity right after the matching phase.
C5_NeverOversold ==
  constellation[1].capacity_update_after =>
    \A s \in Suppliers : MatchesNaming(s) <= offersCap[s]

\* C8: when the retries are exhausted on rate limiting during registration
\* i, only registration i fails: the error is caught at the registration
\* boundary, the orchestrator goes on, the run is not aborted.
C8_RateLimitIsolated ==
  \A i \in 1..numRegs :
    (raisedBy = "RateLimitError" /\ cur = i) =>
      /\ ~RunRaised
      /\ status[i] = "FAILED"

\* C10: when run() ends, by a normal return or by an exception raised while
\* a registration is processed, no appended record is left in the buffer of
\* the batch writer.
C10_NothingLeftUnflushed ==
  (RunReturned \/ RunRaised) => PendingCount = 0

(***************************************************************************)
(* Properties of process_pair (checked under SpecPair).                    *)
(***************************************************************************)
\* a reviewer message or the stop reason of the TaskResult mentions APPROVE
Approved ==
  \E i \in 1..Len(ppLog) :
    \/ /\ ppLog[i].kind = "text"
       /\ ppLog[i].source \in Critics
       /\ MentionsApprove(ppLog[i].content)
    \/ /\ ppLog[i].kind = "result"
       /\ MentionsApprove(ppLog[i].content)

\* the team has a producer and a reviewer and is not the group
Reviewed ==
  /\ ~ppGroup
  /\ ppAgents \cap Matchers # {}
  /\ ppAgents \cap Critics # {}

\* C17: a phase with a producer and a reviewer is reported successful only
\* if a reviewer message or the stop reason of the session contains APPROVE
\* and the payload of the producer was extracted; an extracted payload
\* without approval is not a success.
C17_ReviewedNeedsApproval ==
  (Reviewed /\ ppPc = "returned" /\ ppResult.success) =>
    /\ Approved
    /\ ppJson # NoneValue

\* a reviewer message mentions APPROVE
ReviewerApproved ==
  \E i \in 1..Len(ppLog) :
    /\ ppLog[i].kind = "text"
    /\ ppLog[i].source \in Critics
    /\ MentionsApprove(ppLog[i].content)

\* C18: for a group phase with two producers the result is success only if
\* the payloads of both producers are non-none when the session ends; the
\* APPROVE of the reviewer, or the payload of one producer alone, never
\* makes the phase succeed.
C18_GroupNeedsBothPayloads ==
  (ppGroup /\ ppPc = "returned" /\ ppResult.success) =>
    /\ ppMatches # NoneValue
    /\ ppPos # NoneValue
    /\ ppResult.json_output = [matches |-> ppMatches, pos |-> ppPos]

\* a group session with both payloads and the approval of the reviewer has
\* returned success
C18_Witness ==
  /\ ppGroup
  /\ ppPc = "returned"
  /\ ppResult.success
  /\ ReviewerApproved

\* the team is one producer without a reviewer
SingleProducer == ~ppGroup /\ ppAgents = {"matcher1"}

\* every message of the session so far was a text message
TextOnly == \A i \in 1..Len(ppLog) : ppLog[i].kind # "structured"

\* C19: for a phase with a single producer and no reviewer, the result is
\* success exactly when the extractor returns a non-none payload from the
\* accumulated transcript of the producer (an empty list or object
\* included), and the output is that payload; otherwise the result is
\* {success: false, output: none}.
C19_SingleProducerResult ==
  (SingleProducer /\ TextOnly /\ ppPc = "returned") =>
    LET payload == ExtractJsonBeforeApprove(ppOut)
    IN IF payload # NoneValue
       THEN ppResult = [success |-> TRUE, json_output |-> payload]
       ELSE ppResult = Failure

(***************************************************************************)
(* Properties of the extractor (checked under SpecExtract).                *)
(***************************************************************************)
\* C20: the extractor uses only the text before the first occurrence of
\* APPROVE, in any case: for every prefix p and suffix s the result for
\* p + APPROVE + s is the result for p + APPROVE, so JSON that comes after
\* APPROVE is never returned.
C20_OnlyTextBeforeApprove ==
  (exPc = "done" /\ exMark \in ApproveVariants) =>
    exResult = ExtractJsonBeforeApprove(exPrefix \o exMark)

\* the text before the first APPROVE of the transcript, or all of it
BeforeApprove == IF exMark # <<>> THEN Strip(exPrefix) ELSE ExOutput

\* C21: when the text before APPROVE contains a json-fenced block, the
\* extractor returns the parsed content of that block; when that content is
\* not valid JSON it returns none, without the whole-text parse and without
\* the bracket fallback, even if valid JSON stands elsewhere in the text.
C21_FencedBlockDecides ==
  (exPc = "done" /\ FencedBlock(BeforeApprove).found) =>
    LET loaded == JsonLoads(FencedBlock(BeforeApprove).body)
    IN exResult = IF loaded.ok THEN loaded.value ELSE NoneValue

\* the fenced block is not JSON, a JSON list follows it, and the extractor
\* has answered none
C21_Witness ==
  /\ exPc = "done"
  /\ FencedBlock(BeforeApprove).found
  /\ ~JsonLoads(FencedBlock(BeforeApprove).body).ok
  /\ LastResort(BeforeApprove) # NoneValue
  /\ exResult = NoneValue

\* the index of the earliest "[" or "{" of a text, -1 when it has neither
EarliestBracket(t) ==
  LET hits == {Find(t, <<"[">>), Find(t, <<"{">>)} \ {-1}
  IN IF hits = {} THEN -1 ELSE MinOf(hits)

\* C22: without a fenced block, and when the whole text is not JSON, the
\* extractor starts at the earliest "[" or "{" of the text and parses from
\* there to the matching closing bracket found by depth counting, ignoring
\* the text after that bracket.
C22_EarliestBracket ==
  LET t == ParseContent(ExOutput)
      whole == JsonLoads(t)
      loaded == JsonLoads(ExtractBracedContent(Drop(t, EarliestBracket(t))))
  IN ( /\ exPc = "done"
       /\ Strip(ExOutput) # <<>>
       /\ ~FencedBlock(t).found
       /\ ~(whole.ok /\ whole.value.type \in {"list", "dict"})
       /\ EarliestBracket(t) # -1 )
     => exResult = IF loaded.ok THEN loaded.value ELSE NoneValue

\* C23: the extractor is total, it raises no exception, and it returns none
\* whenever no JSON list or object can be parsed from the text before
\* APPROVE; stated for the texts that have no bracket at all.
C23_NoneWithoutListOrObject ==
  LET t == ParseContent(ExOutput)
  IN (exPc = "done" /\ EarliestBracket(t) = -1) => exResult = NoneValue

(***************************************************************************)
(* Properties of configuration and loading (checked under SpecConfig).     *)
(***************************************************************************)
\* the constellation names of the WorkflowConfig type
KnownNames == {"p1m1m2c", "p1m1c1m2c2", "p1m1c1_p2m2c2", "p1m1_p2m2"}

C25_LegacyKeyNormalized ==
  cfgPc = "loaded" =>
    /\ Len(regs) = Len(regs0)
    /\ \A i \in 1..Len(regs0) :
         /\ (regs0[i].RegistrationNumber # Missing /\ regs0[i].registration_id = Missing)
              => /\ regs[i].registration_id = regs0[i].RegistrationNumber
                 /\ regs[i].RegistrationNumber = Missing
         /\ regs0[i].registration_id # Missing
              => regs[i].registration_id = regs0[i].registration_id

\* a loaded list with a registration that had only the legacy key and one
\* that had both keys
C25_Witness ==
  /\ cfgPc = "loaded"
  /\ \E i, j \in 1..Len(regs0) :
       /\ regs0[i].RegistrationNumber # Missing
       /\ regs0[i].registration_id = Missing
       /\ regs0[j].RegistrationNumber # Missing
       /\ regs0[j].registration_id # Missing

\* the path the claim derives for setting k from data_dir d, scenario sc
\* and constellation n
DerivedPath(k, d, sc, n) ==
  CASE k = "registrations_file" -> <<d, "registrations", sc, ".json">>
    [] k = "offers_file" -> <<d, "offers", "base_offers.json">>
    [] k = "capacity_file" -> <<d, "capacity", sc, ".json">>
    [] k = "matches_file" -> <<d, "results", n, "_matches.json">>
    [] k = "pos_file" -> <<d, "results", n, "_pos.json">>
    [] k = "stats_file" -> <<d, "results", n, "_stats.csv">>

\* C26: for each of the six path settings of WorkflowConfig, a path given
\* explicitly is kept as given; otherwise, when both data_dir and scenario
\* are given, the path is derived from them; otherwise the fixed default
\* file name is used.
C26_PathDefaults ==
  cfgPc # "new" =>
    \A k \in PathSettings :
      cfg.paths[k] =
        IF cfg0.paths[k] # None THEN cfg0.paths[k]
        ELSE IF cfg0.data_dir \notin {NoValue, ""} /\ cfg0.scenario \notin {NoValue, ""}
        THEN DerivedPath(k, cfg0.data_dir, cfg0.scenario, cfg0.constellation)
        ELSE DefaultPath(k)

\* a configuration with data_dir and scenario in which one path was given
\* and another one was derived
C26_Witness ==
  /\ cfgPc = "configured"
  /\ cfg0.data_dir = "data"
  /\ cfg0.scenario = "overlap"
  /\ cfg0.paths["matches_file"] # None
  /\ cfg0.paths["capacity_file"] = None
  /\ cfg.paths["capacity_file"] = <<"data", "capacity", "overlap", ".json">>

\* some phase of the constellation carries a capacity flag
CapacityBearing ==
  \E p \in 1..Len(constellation) :
    constellation[p].capacity_update_before \/ constellation[p].capacity_update_after

\* the total of Used over all suppliers, in the map the allocator works on
TotalUsed ==
  LET RECURSIVE Sum(_)
      Sum(S) == IF S = {} THEN 0
                ELSE LET s == CHOOSE x \in S : TRUE
                     IN MemView[s].Used + Sum(S \ {s})
  IN Sum(Suppliers)

\* the loop is over and every registration it processed went through every
\* phase of the constellation
AllCompleted ==
  /\ rpc \in {"exit", "final"}
  /\ \A i \in 1..MaxProc : status[i] = "DONE"

\* C27: for every constellation that has a capacity-bearing phase, each
\* registration that completes makes exactly one successful increment: when
\* every processed registration has completed all its phases, the total of
\* Used over all suppliers equals the number of registrations processed,
\* whichever phases carry the flags.
C27_OneIncrementPerRegistration ==
  (CapacityBearing /\ AllCompleted) => TotalUsed = MaxProc

\* a successful increment has just been made by the orchestrator's allocator
IncrementMade ==
  /\ lastCall'.seq # lastCall.seq
  /\ lastCall'.who = "workflow"
  /\ lastCall'.result = "ok"

\* C28: every increment made while registration R is processed goes to the
\* supplier named in a match produced for R in the current run, never to
\* the supplier of a match left in the list by an earlier registration.
C28_IncrementForOwnMatch ==
  [][IncrementMade =>
       \E i \in 1..Len(lastMatches') :
         /\ lastMatches'[i].key = RegIds[cur']
         /\ lastMatches'[i].supplier_id = lastCall'.sup]_vars

\* Used of every supplier, in a capacity map
UsedOf(data) == [s \in Suppliers |-> data[s].Used]

\* C29: when the run has returned, the capacity file holds, for every
\* supplier, the Used of the in-memory map, whatever the scheduling of the
\* background write tasks was.
C29_FileMatchesMemoryAtEnd ==
  RunReturned =>
    /\ capFile.kind # "empty"
    /\ UsedOf(FileView.data) = UsedOf(MemView)

\* the allocator of the orchestrator has just been called
AllocatorCalled == lastCall'.seq # lastCall.seq /\ lastCall'.who = "workflow"

\* C30: the in-memory Used changes only in a call of the allocator made for
\* the registration being processed, by one for the supplier named, and the
\* allocator's capacity test reads the Used left by all earlier increments:
\* it refuses exactly when that Used has reached the supplier's Capacity.
C30_IncrementsInOrderNoStaleRead ==
  [][/\ UsedOf(MemView') =
          IF AllocatorCalled /\ lastCall'.result = "ok"
            THEN [UsedOf(MemView) EXCEPT ![lastCall'.sup] = @ + 1]
            ELSE UsedOf(MemView)
     /\ AllocatorCalled =>
          /\ rpc \in {"phase", "negotiating"}
          /\ lastCall'.result = "exceeded" <=>
               /\ lastCall'.sup \in Suppliers
               /\ MemView[lastCall'.sup].Used >= MemView[lastCall'.sup].Capacity]_vars

\* the second registration was refused at a supplier the first one filled,
\* while the write of the first increment had not reached the file
C30_Witness ==
  /\ cur = 2
  /\ status[1] = "DONE"
  /\ lastCall.who = "workflow"
  /\ lastCall.result = "exceeded"
  /\ lastCall.sup \in Suppliers
  /\ MemView[lastCall.sup].Used = 1
  /\ FileView.data[lastCall.sup].Used = 0

\* the phases of registration i for which process_pair was called, in order
PhasesOf(log, i) ==
  LET own == SelectSeq(log, LAMBDA e : e[1] = i)
  IN [k \in 1..Len(own) |-> own[k][2]]

\* process_pair has just reported a failure for the phase under way
PhaseHasFailed ==
  /\ rpc = "negotiating"
  /\ status'[cur] = "FAILED"
  /\ lastCall' = lastCall

\* C31: within a registration the phases run in the declared order, one at
\* a time: the phases started for registration i are 1, 2, ... with no gap
\* and no repetition, the second phase starts only when the first has
\* delivered its payload, a failed registration starts no further phase,
\* and the step in which process_pair reports a failure persists nothing.
C31_PhasesInDeclaredOrder ==
  /\ [](\A i \in 1..numRegs :
          /\ Len(PhasesOf(phaseLog, i)) <= Len(constellation)
          /\ \A k \in 1..Len(PhasesOf(phaseLog, i)) : PhasesOf(phaseLog, i)[k] = k
          /\ Len(PhasesOf(phaseLog, i)) >= 2 =>
               \E j \in 1..Len(lastMatches) : lastMatches[j].key = RegIds[i])
  /\ [][\A i \in 1..numRegs :
          status[i] = "FAILED" =>
            /\ status'[i] = "FAILED"
            /\ PhasesOf(phaseLog', i) = PhasesOf(phaseLog, i)]_vars
  /\ [][PhaseHasFailed =>
          /\ UNCHANGED <<bwKeys, bwBuf, bwCount, bwAppended, disk>>
          /\ UNCHANGED <<lastMatches, statsRows, phaseLog>>]_vars

\* the first registration failed in its second phase, after its match was
\* appended, and the second registration went through both phases
C31_Witness ==
  /\ status[1] = "FAILED"
  /\ rejectedFrom[1] = 0
  /\ PhasesOf(phaseLog, 1) = <<1, 2>>
  /\ Len(bwAppended["matches"]) = 2
  /\ Len(bwAppended["pos"]) = 1
  /\ bwAppended["pos"][1].key = RegIds[2]
  /\ status[2] = "DONE"
  /\ PhasesOf(phaseLog, 2) = <<1, 2>>

\* process_pair has just reported success: the payload of the phase has
\* been handed to the batch writer
PayloadHandled == rpc = "negotiating" /\ bwAppended' # bwAppended

\* C32: the payload of a phase is appended to the file of every producer
\* of the phase and to no other file: the matches file gets a record
\* exactly when matcher1 is among the roles of the phase, the POS file
\* exactly when matcher2 is, a phase with both producers included.
C32_PayloadToProducerFile ==
  [][PayloadHandled =>
       /\ Len(bwAppended'["matches"]) = Len(bwAppended["matches"]) + 1
             <=> HasMatcher1(constellation[phase].roles)
       /\ Len(bwAppended'["pos"]) = Len(bwAppended["pos"]) + 1
             <=> HasMatcher2(constellation[phase].roles)]_vars

\* the payload a producer's message carries on its own
Candidate(e) ==
  IF e.kind = "structured" THEN [type |-> "list", text |-> e.content]
  ELSE ExtractJsonBeforeApprove(e.content)

\* the producer's messages that carry a payload, in the order received
Candidates ==
  SelectSeq(ppLog, LAMBDA e : e.source \in Matchers /\ Candidate(e) # NoneValue)

\* C33: when the producer of a phase with one producer has sent more than
\* one payload during the session, the payload process_pair returns is the
\* one of the producer's most recent message.
C33_MostRecentPayload ==
  (~ppGroup /\ ppPc = "returned" /\ ppResult.success /\ Len(Candidates) >= 2) =>
    ppResult.json_output = Candidate(Candidates[Len(Candidates)])

\* C34: when run_with_backoff has completed, the events its consumer has
\* received are those of the attempt that succeeded, each exactly once and
\* in order; no event of a rate-limited attempt is among them.
C34_OnlyEventsOfLastAttempt ==
  rbPc = "done" =>
    \A k \in 1..Len(rbEvents) :
      rbEvents[k] = [attempt |-> rbAttempt, index |-> k]

\* C35: process_pair ends every stream that is not rate-limited by
\* returning a result: no event makes it raise, the TaskResult of a group
\* phase whose stop reason mentions the approval mark included.
C35_PairNeverRaises ==
  /\ ppPc # "raised"
  /\ ppPc = "returned" => ppResult.success \in BOOLEAN

\* C36: a registration that failed in its second phase, after its first
\* phase was completed, has its timing data handed to the stats sink.
C36_TimingKeptOnFailure ==
  \A i \in 1..numRegs :
    (status[i] = "FAILED" /\ PhasesOf(phaseLog, i) = <<1, 2>>) => i \in statsRows

(***************************************************************************)
(* The reset and the offers file                                           *)
(***************************************************************************)
\* C39: reset_capacity computes, from the capacity file it read, a map with
\* the same supplier ids and the same Capacity for each, in which every
\* Used and every UsedPct is 0, and that map is what it writes to the file.
C39_ResetKeepsCapacity ==
  [][/\ (rproc.pc = "idle" /\ rproc'.pc = "opening") =>
          /\ DOMAIN rproc'.local = DOMAIN capFile.data
          /\ \A s \in DOMAIN capFile.data :
                /\ rproc'.local[s].Used = 0
                /\ rproc'.local[s].UsedPct = 0
                /\ rproc'.local[s].Capacity = capFile.data[s].Capacity
     /\ (resets' = resets + 1) => capFile' = DataFile(rproc.local)]_vars

\* a reset has returned after an increment was stored, and the file holds
\* the supplier's capacity with no unit in use
C39_Witness ==
  /\ resets = 1
  /\ lastCall.who = "reset"
  /\ lastCall.result = "ok"
  /\ capFile.kind = "data"
  /\ \E s \in Suppliers :
        /\ okCount[s] = 1
        /\ capFile.data[s].Capacity = MaxCap
        /\ capFile.data[s].Used = 0
        /\ capFile.data[s].UsedPct = 0

\* C40: no step of initialize_capacity_file, update_supplier_capacity,
\* Workflow._update_capacity or reset_capacity changes the offers file:
\* each supplier's Capacity and Used there stay what they were.
C40_OffersNeverWritten ==
  [][offersCap' = offersCap /\ offersUsed' = offersUsed]_vars

\* both allocators and the reset have acted on the capacity file while the
\* offers file still shows its own Used value for the supplier
C40_Witness ==
  /\ resets = 1
  /\ capCache.loaded
  /\ capFile.kind = "data"
  /\ \E s \in Suppliers :
        /\ okCount[s] = 1
        /\ offersUsed[s] = MaxCap
        /\ capCache.data[s].Used = 1
        /\ capFile.data[s].Used # offersUsed[s]

(***************************************************************************)
(* The stats sink                                                          *)
(***************************************************************************)
\* C37: after the configurable workflow has recorded a registration whose
\* phases all succeeded, the stats file holds exactly one row for its id,
\* and in that row the i-th configured timing column holds the elapsed time
\* of the i-th phase, for every phase.
C37_RowHoldsPhaseTimes ==
  stLast.who = "configurable" =>
    /\ Cardinality({j \in 1..Len(stFile.rows) : stFile.rows[j].id = stLast.id}) = 1
    /\ \A j \in 1..Len(stFile.rows), i \in 1..Len(stCols) :
          stFile.rows[j].id = stLast.id =>
            /\ stCols[i] \in stFile.columns
            /\ stFile.rows[j].t[stCols[i]] = Format3(stLast.times[i])

(***************************************************************************)
(* The records a store write leaves alone                                  *)
(***************************************************************************)
\* the keys a store operation was asked to write
WrittenKeys(inp) ==
  IF inp.shape = "save"
    THEN {EntryKey(inp.entry[i]) : i \in 1..Len(inp.entry)} \ {NoKey}
    ELSE {EntryKey(inp.entry)} \ {NoKey}

\* C38: every record that was in the file before update_json_list or
\* save_json and whose key is none of the keys being written, a record
\* without a key included, is in the file unchanged after the write.
C38_OtherRecordsKept ==
  \A i \in 1..Len(lsApplied) :
    LET before == ReadForUpsert(lsHist[i])
        after == ReadForUpsert(lsHist[i + 1])
    IN \A j \in 1..Len(before) :
         EntryKey(before[j]) \notin WrittenKeys(lsApplied[i]) =>
           \E m \in 1..Len(after) : after[m] = before[j]

====
